---------------------------- MODULE Spec2Model ----------------------------
(***************************************************************************)
(* A model of gofilter: the filter package (field resolver, comparator,    *)
(* leaf operators, combinators, Apply, Sort) and the query package (field  *)
(* registry, parameter parser, coercion, Apply, ApplyPaginated).           *)
(*                                                                         *)
(* Go strings are sequences of one-character strings; a Go value is a      *)
(* record [k |-> kind, pv |-> payload] as reflect sees it.                  *)
(***************************************************************************)
EXTENDS Integers, Sequences, FiniteSets, TLC

VARIABLES
    items,   \* the caller's input slice
    call,    \* the invocation performed last: its name and its arguments
    ret      \* what that invocation returned

vars == <<items, call, ret>>

(***************************************************************************)
(* Strings (package strings, and Go's byte-wise string order)              *)
(***************************************************************************)
Digits == <<"0", "1", "2", "3", "4", "5", "6", "7", "8", "9">>

Upper == <<"A", "B", "C", "D", "E", "F", "G", "H", "I", "J", "K", "L", "M",
           "N", "O", "P", "Q", "R", "S", "T", "U", "V", "W", "X", "Y", "Z">>

Lower == <<"a", "b", "c", "d", "e", "f", "g", "h", "i", "j", "k", "l", "m",
           "n", "o", "p", "q", "r", "s", "t", "u", "v", "w", "x", "y", "z">>

InSeq(c, s) == \E i \in 1..Len(s) : s[i] = c

IndexOf(c, s) == CHOOSE i \in 1..Len(s) : s[i] = c

\* The byte of a character (ASCII), which is what Go's string order compares.
Byte(c) ==
    IF InSeq(c, Digits) THEN 47 + IndexOf(c, Digits)
    ELSE IF InSeq(c, Upper) THEN 64 + IndexOf(c, Upper)
    ELSE IF InSeq(c, Lower) THEN 96 + IndexOf(c, Lower)
    ELSE CASE c = " " -> 32
           [] c = "+" -> 43
           [] c = "," -> 44
           [] c = "-" -> 45
           [] c = "." -> 46
           [] c = "=" -> 61
           [] c = "_" -> 95
           [] OTHER   -> 63

\* a < b on Go strings.
RECURSIVE StrLess(_, _)
StrLess(a, b) ==
    IF a = <<>> THEN b # <<>>
    ELSE IF b = <<>> THEN FALSE
    ELSE IF a[1] = b[1] THEN StrLess(Tail(a), Tail(b))
    ELSE Byte(a[1]) < Byte(b[1])

HasPrefix(s, prefix) ==
    Len(s) >= Len(prefix) /\ SubSeq(s, 1, Len(prefix)) = prefix

HasSuffix(s, suffix) ==
    Len(s) >= Len(suffix) /\ SubSeq(s, Len(s) - Len(suffix) + 1, Len(s)) = suffix

TrimPrefix(s, prefix) ==
    IF HasPrefix(s, prefix) THEN SubSeq(s, Len(prefix) + 1, Len(s)) ELSE s

TrimSuffix(s, suffix) ==
    IF HasSuffix(s, suffix) THEN SubSeq(s, 1, Len(s) - Len(suffix)) ELSE s

\* strings.Index: the first position where sep starts in s, 0 when none.
StrIndex(s, sep) ==
    LET hits == {i \in 1..(Len(s) - Len(sep) + 1) : SubSeq(s, i, i + Len(sep) - 1) = sep}
    IN  IF hits = {} THEN 0 ELSE CHOOSE i \in hits : \A j \in hits : i <= j

StrContains(s, substr) == substr = <<>> \/ StrIndex(s, substr) > 0

\* strings.SplitN(s, sep, n) for a non-empty sep; n < 0 means no limit.
RECURSIVE SplitN(_, _, _)
SplitN(s, sep, n) ==
    LET i == StrIndex(s, sep)
    IN  IF n = 0 THEN <<>>
        ELSE IF n = 1 \/ i = 0 THEN <<s>>
        ELSE <<SubSeq(s, 1, i - 1)>>
             \o SplitN(SubSeq(s, i + Len(sep), Len(s)), sep, IF n < 0 THEN n ELSE n - 1)

Split(s, sep) == SplitN(s, sep, -1)

RECURSIVE TrimLeftSpace(_)
TrimLeftSpace(s) ==
    IF s # <<>> /\ s[1] = " " THEN TrimLeftSpace(Tail(s)) ELSE s

RECURSIVE TrimRightSpace(_)
TrimRightSpace(s) ==
    IF s # <<>> /\ s[Len(s)] = " " THEN TrimRightSpace(SubSeq(s, 1, Len(s) - 1)) ELSE s

TrimSpace(s) == TrimRightSpace(TrimLeftSpace(s))

(***************************************************************************)
(* Values as reflect sees them                                             *)
(***************************************************************************)
SignedKinds == {"int", "int8"}

UnsignedKinds == {"uint8"}

FloatKinds == {"float64"}

NumericKinds == SignedKinds \cup UnsignedKinds \cup FloatKinds

VStr(s) == [k |-> "string", pv |-> s]

VInt(n) == [k |-> "int", pv |-> n]

VInt8(n) == [k |-> "int8", pv |-> n]

VUint8(n) == [k |-> "uint8", pv |-> n]

\* A float64 is held as its number of halves: VFloat64(5) is 2.5.
VFloat64(h) == [k |-> "float64", pv |-> h]

VBool(b) == [k |-> "bool", pv |-> b]

\* A pointer holds <<>> when nil and <<target>> otherwise.
NilPtr == [k |-> "ptr", pv |-> <<>>]

Ptr(target) == [k |-> "ptr", pv |-> <<target>>]

\* A struct holds the function from its members' names to their values.
Struct(members) == [k |-> "struct", pv |-> members]

\* A map holds its entries as a function from the keys' payloads, and its key
\* kind; nil tells a nil map from an empty one.
Map(entries, keyKind, isNil) ==
    [k |-> "map", kt |-> keyKind, nil |-> isNil, pv |-> entries]

Slice(elems, isNil) == [k |-> "slice", pv |-> elems, nil |-> isNil]

\* The zero reflect.Value.
Invalid == [k |-> "invalid", pv |-> <<>>]

(***************************************************************************)
(* Field Resolver: filter/operators.go getFieldValue                       *)
(***************************************************************************)
sDot == <<".">>

FieldError == [err |-> TRUE, val |-> Invalid]

FieldByName(value, field) ==
    IF field \in DOMAIN value.pv THEN value.pv[field] ELSE Invalid

\* The loop over the path's names (operators.go:28-47), from the i-th on.
RECURSIVE walkFields(_, _, _)
walkFields(value, fields, i) ==
    IF i > Len(fields) THEN [err |-> FALSE, val |-> value]
    ELSE LET fv == FieldByName(value, fields[i])
         IN  IF fv.k = "invalid" THEN FieldError
             ELSE IF fv.k = "ptr" /\ fv.pv = <<>> THEN FieldError
             ELSE LET d == IF fv.k = "ptr" THEN fv.pv[1] ELSE fv
                  IN  IF i < Len(fields) /\ d.k # "struct" THEN FieldError
                      ELSE walkFields(d, fields, i + 1)

getFieldValue(item, fieldPath) ==
    IF item.k = "ptr" /\ item.pv = <<>> THEN FieldError
    ELSE LET value == IF item.k = "ptr" THEN item.pv[1] ELSE item
         IN  IF value.k # "struct" THEN FieldError
             ELSE walkFields(value, Split(fieldPath, sDot), 1)

(***************************************************************************)
(* Value Comparator: compareValues, compareValuesLess                      *)
(***************************************************************************)
\* reflect.Type.ConvertibleTo between the kinds of the model: numbers convert
\* to numbers and integers to strings (the rune's text); nothing else does.
ConvertibleTo(from, to) ==
    \/ from = to
    \/ from \in NumericKinds /\ to \in NumericKinds
    \/ from \in (SignedKinds \cup UnsignedKinds) /\ to = "string"

\* An integer as the given integer kind holds it: int8 and uint8 wrap.
WrapInt(n, kind) ==
    CASE kind = "int8"  -> ((n + 128) % 256) - 128
      [] kind = "uint8" -> n % 256
      [] OTHER          -> n

\* float64 -> integer truncates towards zero (h counts halves).
Trunc(h) == IF h >= 0 THEN h \div 2 ELSE -((-h) \div 2)

\* string(rune(n)) for the characters of the model.
RuneString(n) ==
    LET cs == {c \in {Digits[i] : i \in 1..Len(Digits)}
                     \cup {Upper[i] : i \in 1..Len(Upper)}
                     \cup {Lower[i] : i \in 1..Len(Lower)} : Byte(c) = n}
    IN  IF cs = {} THEN <<"?">> ELSE <<CHOOSE c \in cs : TRUE>>

\* reflect.Value.Convert.
Convert(b, kind) ==
    IF b.k = kind THEN b
    ELSE IF kind = "string" THEN VStr(RuneString(b.pv))
    ELSE IF kind \in FloatKinds THEN VFloat64(2 * b.pv)
    ELSE IF b.k \in FloatKinds THEN [k |-> kind, pv |-> WrapInt(Trunc(b.pv), kind)]
    ELSE [k |-> kind, pv |-> WrapInt(b.pv, kind)]

CompareError == [err |-> TRUE, res |-> FALSE]

Compared(r) == [err |-> FALSE, res |-> r]

\* compareValues(a, b): a == b, after converting b to a's type.
compareValues(a, b) ==
    IF a.k # b.k /\ ~ConvertibleTo(b.k, a.k) THEN CompareError
    ELSE LET bb == Convert(b, a.k)
         IN  IF a.k = "string" \/ a.k \in NumericKinds \/ a.k = "bool"
             THEN Compared(a.pv = bb.pv)
             ELSE CompareError

\* compareValuesLess(a, b): a < b, after converting b to a's type.
compareValuesLess(a, b) ==
    IF a.k # b.k /\ ~ConvertibleTo(b.k, a.k) THEN CompareError
    ELSE LET bb == Convert(b, a.k)
         IN  IF a.k = "string" THEN Compared(StrLess(a.pv, bb.pv))
             ELSE IF a.k \in NumericKinds THEN Compared(a.pv < bb.pv)
             ELSE CompareError

(***************************************************************************)
(* Operator Library: the leaf predicates, each on one item                 *)
(***************************************************************************)
Eq(fieldName, value, item) ==
    LET fv == getFieldValue(item, fieldName)
    IN  IF fv.err THEN FALSE
        ELSE LET c == compareValues(fv.val, value)
             IN  IF c.err THEN FALSE ELSE c.res

Ne(fieldName, value, item) ==
    LET fv == getFieldValue(item, fieldName)
    IN  IF fv.err THEN FALSE
        ELSE LET c == compareValues(fv.val, value)
             IN  IF c.err THEN FALSE ELSE ~c.res

\* Gt compares value < field: the field is what gets converted.
Gt(fieldName, value, item) ==
    LET fv == getFieldValue(item, fieldName)
    IN  IF fv.err THEN FALSE
        ELSE LET c == compareValuesLess(value, fv.val)
             IN  IF c.err THEN FALSE ELSE c.res

Lt(fieldName, value, item) ==
    LET fv == getFieldValue(item, fieldName)
    IN  IF fv.err THEN FALSE
        ELSE LET c == compareValuesLess(fv.val, value)
             IN  IF c.err THEN FALSE ELSE c.res

Gte(fieldName, value, item) ==
    LET fv == getFieldValue(item, fieldName)
    IN  IF fv.err THEN FALSE
        ELSE LET less  == compareValuesLess(fv.val, value)
                 equal == compareValues(fv.val, value)
             IN  IF less.err THEN FALSE
                 ELSE IF equal.err THEN FALSE
                 ELSE ~less.res \/ equal.res

Lte(fieldName, value, item) ==
    LET fv == getFieldValue(item, fieldName)
    IN  IF fv.err THEN FALSE
        ELSE LET less  == compareValuesLess(fv.val, value)
                 equal == compareValues(fv.val, value)
             IN  IF less.err THEN FALSE
                 ELSE IF equal.err THEN FALSE
                 ELSE less.res \/ equal.res

Contains(fieldName, value, item) ==
    LET fv == getFieldValue(item, fieldName)
    IN  IF fv.err THEN FALSE
        ELSE IF fv.val.k = "string"
             THEN value.k = "string" /\ StrContains(fv.val.pv, value.pv)
        ELSE IF fv.val.k = "slice"
             THEN \E i \in 1..Len(fv.val.pv) :
                      LET c == compareValues(fv.val.pv[i], value)
                      IN  ~c.err /\ c.res
        ELSE FALSE

In(fieldName, values, item) ==
    LET fv == getFieldValue(item, fieldName)
    IN  IF fv.err THEN FALSE
        ELSE \E i \in 1..Len(values) :
                 LET c == compareValues(fv.val, values[i])
                 IN  ~c.err /\ c.res

(***************************************************************************)
(* Predicate Algebra: the combinators, on the verdicts of their operands   *)
(***************************************************************************)
And(verdicts) == \A i \in 1..Len(verdicts) : verdicts[i]

Or(verdicts) == \E i \in 1..Len(verdicts) : verdicts[i]

\* A variant of Not that hands its operand's verdict on.
NotUnchanged(verdict) == verdict

Not(verdict) == ~verdict

NilableKinds == {"ptr", "slice", "map", "interface", "chan", "func"}

\* reflect.Value.IsNil on the kinds of the model.
IsNilValue(val) ==
    CASE val.k = "ptr" -> val.pv = <<>>
      [] val.k \in {"slice", "map"} -> val.nil
      [] OTHER -> FALSE

IsNil(fieldName, item) ==
    LET fv == getFieldValue(item, fieldName)
    IN  IF fv.err THEN FALSE
        ELSE IF fv.val.k \in NilableKinds THEN IsNilValue(fv.val)
        ELSE FALSE

IsNotNil(fieldName, item) == Not(IsNil(fieldName, item))

\* reflect.Value.IsZero: a struct is zero when all its members are.
RECURSIVE IsZeroValue(_)
IsZeroValue(val) ==
    CASE val.k = "string" -> val.pv = <<>>
      [] val.k \in NumericKinds -> val.pv = 0
      [] val.k = "bool" -> val.pv = FALSE
      [] val.k \in {"ptr", "slice", "map"} -> IsNilValue(val)
      [] val.k = "struct" -> \A m \in DOMAIN val.pv : IsZeroValue(val.pv[m])
      [] val.k = "time" -> val.pv = <<0, 0>>
      [] OTHER -> FALSE

IsZero(fieldName, item) ==
    LET fv == getFieldValue(item, fieldName)
    IN  IF fv.err THEN FALSE ELSE IsZeroValue(fv.val)

IsNotZero(fieldName, item) == Not(IsZero(fieldName, item))

Between(fieldName, min, max, item) ==
    And(<<Gte(fieldName, min, item), Lte(fieldName, max, item)>>)

(***************************************************************************)
(* Geospatial operators (filter/geo.go)                                    *)
(***************************************************************************)
earthRadiusKm == 6371

\* The coordinate of a field as float64, in halves of a degree: floats as they
\* are, signed integers converted, every other kind unsupported.
Coordinate(val) ==
    IF val.k \in FloatKinds THEN [ok |-> TRUE, h |-> val.pv]
    ELSE IF val.k \in SignedKinds THEN [ok |-> TRUE, h |-> 2 * val.pv]
    ELSE [ok |-> FALSE, h |-> 0]

Abs(n) == IF n < 0 THEN -n ELSE n

\* calculateDistance for two points of one meridian, where the haversine
\* formula gives earthRadiusKm * |dLat| * pi / 180; in units of 10 m, with
\* 355/113 for pi. Points of different longitude are outside the model.
calculateDistance(p1, p2) ==
    CASE p1.Lng = p2.Lng ->
        (earthRadiusKm * 100 * 355 * Abs(p2.Lat - p1.Lat)) \div (113 * 360)

\* radiusKm counts halves of a kilometre.
WithinRadius(latField, lngField, centerPoint, radiusKm, item) ==
    LET latValue == getFieldValue(item, latField)
        lngValue == getFieldValue(item, lngField)
    IN  IF latValue.err THEN FALSE
        ELSE IF lngValue.err THEN FALSE
        ELSE LET lat == Coordinate(latValue.val)
                 lng == Coordinate(lngValue.val)
             IN  IF ~lat.ok THEN FALSE
                 ELSE IF ~lng.ok THEN FALSE
                 ELSE calculateDistance(centerPoint, [Lat |-> lat.h, Lng |-> lng.h])
                          <= 50 * radiusKm

OutsideRadius(latField, lngField, centerPoint, radiusKm, item) ==
    Not(WithinRadius(latField, lngField, centerPoint, radiusKm, item))

WithinBoundingBox(latField, lngField, box, item) ==
    LET latValue == getFieldValue(item, latField)
        lngValue == getFieldValue(item, lngField)
    IN  IF latValue.err THEN FALSE
        ELSE IF lngValue.err THEN FALSE
        ELSE LET lat == Coordinate(latValue.val)
                 lng == Coordinate(lngValue.val)
             IN  IF ~lat.ok THEN FALSE
                 ELSE IF ~lng.ok THEN FALSE
                 ELSE /\ lat.h >= box.SouthWest.Lat
                      /\ lat.h <= box.NorthEast.Lat
                      /\ lng.h >= box.SouthWest.Lng
                      /\ lng.h <= box.NorthEast.Lng

(***************************************************************************)
(* Keyed-collection operators (the map filters)                            *)
(***************************************************************************)
HasKey(fieldName, key, item) ==
    LET fv == getFieldValue(item, fieldName)
    IN  IF fv.err THEN FALSE
        ELSE IF fv.val.k # "map" THEN FALSE
        ELSE IF key.k # fv.val.kt THEN FALSE
        ELSE key.pv \in DOMAIN fv.val.pv

HasValue(fieldName, value, item) ==
    LET fv == getFieldValue(item, fieldName)
    IN  IF fv.err THEN FALSE
        ELSE IF fv.val.k # "map" THEN FALSE
        ELSE \E mk \in DOMAIN fv.val.pv :
                 LET c == compareValues(fv.val.pv[mk], value)
                 IN  ~c.err /\ c.res

MapSizeEquals(fieldName, size, item) ==
    LET fv == getFieldValue(item, fieldName)
    IN  IF fv.err THEN FALSE
        ELSE IF fv.val.k # "map" THEN FALSE
        ELSE Cardinality(DOMAIN fv.val.pv) = size

MapSizeGreaterThan(fieldName, size, item) ==
    LET fv == getFieldValue(item, fieldName)
    IN  IF fv.err THEN FALSE
        ELSE IF fv.val.k # "map" THEN FALSE
        ELSE Cardinality(DOMAIN fv.val.pv) > size

MapSizeLessThan(fieldName, size, item) ==
    LET fv == getFieldValue(item, fieldName)
    IN  IF fv.err THEN FALSE
        ELSE IF fv.val.k # "map" THEN FALSE
        ELSE Cardinality(DOMAIN fv.val.pv) < size

(***************************************************************************)
(* Timestamps: time.Time, time.Parse on the layouts the source uses, and  *)
(* the date filters                                                        *)
(***************************************************************************)
\* A second in the ticks of the model's clock: a timestamp resolves half
\* seconds (time.Time resolves nanoseconds).
Second == 2

TicksPerDay == 86400 * Second

\* A time.Time is held as its instant: the day since 0001-01-01 UTC and the
\* tick within the day. Its reflect kind is Struct; the model tells it apart
\* from the structs with members.
VTime(day, tick) == [k |-> "time", pv |-> <<day, tick>>]

\* time.Time{}: January 1, year 1, 00:00:00 UTC.
ZeroTime == VTime(0, 0)

TimeIsZero(t) == t = ZeroTime

TimeBefore(t, u) == t.pv[1] < u.pv[1] \/ (t.pv[1] = u.pv[1] /\ t.pv[2] < u.pv[2])

TimeAfter(t, u) == TimeBefore(u, t)

\* t.Add(d), d in ticks.
TimeAdd(t, d) ==
    VTime(t.pv[1] + ((t.pv[2] + d) \div TicksPerDay), (t.pv[2] + d) % TicksPerDay)

isLeap(year) == year % 4 = 0 /\ (year % 100 # 0 \/ year % 400 = 0)

daysIn(month, year) ==
    IF month = 2 THEN (IF isLeap(year) THEN 29 ELSE 28)
    ELSE IF month \in {4, 6, 9, 11} THEN 30
    ELSE 31

RECURSIVE daysBefore(_, _)
daysBefore(month, year) ==
    IF month = 1 THEN 0 ELSE daysBefore(month - 1, year) + daysIn(month - 1, year)

\* The days from 0001-01-01 to the first day of year.
daysSinceEpoch(year) ==
    LET y == year - 1
    IN  365 * y + (y \div 4) - (y \div 100) + (y \div 400)

\* time.Date(year, month, day, hour, min, sec, nsec, UTC) shifted by the zone
\* offset (seconds east of UTC) that the text named.
Date(year, month, day, hour, min, sec, frac, zoneOffset) ==
    TimeAdd(VTime(daysSinceEpoch(year) + daysBefore(month, year) + day - 1, 0),
            (hour * 3600 + min * 60 + sec - zoneOffset) * Second + frac)

isDigit(s, i) == i <= Len(s) /\ InSeq(s[i], Digits)

DigitAt(s, i) == IndexOf(s[i], Digits) - 1

From(s, i) == SubSeq(s, i, Len(s))

\* getnum: one or two digits; exactly two when fixed.
getnum(s, fixed) ==
    IF ~isDigit(s, 1) THEN [err |-> TRUE, n |-> 0, rest |-> s]
    ELSE IF ~isDigit(s, 2)
         THEN (IF fixed THEN [err |-> TRUE, n |-> 0, rest |-> s]
               ELSE [err |-> FALSE, n |-> DigitAt(s, 1), rest |-> From(s, 2)])
    ELSE [err |-> FALSE, n |-> 10 * DigitAt(s, 1) + DigitAt(s, 2), rest |-> From(s, 3)]

\* The layout elements of the layouts the source parses with.
stdLongYear == <<"2", "0", "0", "6">>

stdZeroMonth == <<"0", "1">>

stdZeroDay == <<"0", "2">>

stdHour == <<"1", "5">>

stdZeroMinute == <<"0", "4">>

stdZeroSecond == <<"0", "5">>

stdISO8601ColonTZ == <<"Z", "0", "7", ":", "0", "0">>

StdChunks ==
    <<stdLongYear, stdZeroMonth, stdZeroDay, stdHour, stdZeroMinute, stdZeroSecond,
      stdISO8601ColonTZ>>

RFC3339 == <<"2", "0", "0", "6", "-", "0", "1", "-", "0", "2", "T", "1", "5", ":", "0", "4", ":", "0", "5", "Z", "0", "7", ":", "0", "0">>

\* The layout element that layout has at position i, or <<>>.
PickStd(found) == IF found = {} THEN <<>> ELSE StdChunks[CHOOSE n \in found : TRUE]

StdAt(layout, i) ==
    PickStd({n \in 1..Len(StdChunks) : HasPrefix(From(layout, i), StdChunks[n])})

\* The chunk that ends with the layout element std at position i.
ChunkAt(layout, i, std) ==
    [prefix |-> SubSeq(layout, 1, i - 1), std |-> std,
     suffix |-> From(layout, i + Len(std))]

\* nextStdChunk: the text before the first layout element, the element, and
\* the rest of the layout.
RECURSIVE ChunkFrom(_, _)
ChunkFrom(layout, i) ==
    IF i > Len(layout) THEN [prefix |-> layout, std |-> <<>>, suffix |-> <<>>]
    ELSE IF StdAt(layout, i) # <<>> THEN ChunkAt(layout, i, StdAt(layout, i))
    ELSE ChunkFrom(layout, i + 1)

nextStdChunk(layout) == ChunkFrom(layout, 1)

\* The state of time.Parse: the text left and the fields read so far.
ParseStart(value) ==
    [ok |-> TRUE, value |-> value, year |-> 0, month |-> 1, day |-> 1, hour |-> 0,
     min |-> 0, sec |-> 0, frac |-> 0, zoneOffset |-> 0]

ParseFailed(st) == [st EXCEPT !.ok = FALSE]

\* The number r that getnum read, checked against lo..hi and stored in the
\* named field.
Ranged(st, r, lo, hi, field) ==
    IF r.err \/ r.n < lo \/ r.n > hi THEN ParseFailed(st)
    ELSE [st EXCEPT ![field] = r.n, !.value = r.rest]

\* The digits of value from position i on end before position DigitsEnd.
RECURSIVE DigitsEnd(_, _)
DigitsEnd(value, i) == IF isDigit(value, i) THEN DigitsEnd(value, i + 1) ELSE i

\* A fractional second after the seconds although the layout has none: its
\* digits are read, at the resolution of the model's clock.
Fraction(st) ==
    IF ~st.ok THEN st
    ELSE IF Len(st.value) >= 2 /\ st.value[1] \in {".", ","} /\ isDigit(st.value, 2)
    THEN [st EXCEPT !.frac = (DigitAt(st.value, 2) * Second) \div 10,
                    !.value = From(st.value, DigitsEnd(st.value, 2))]
    ELSE st

\* The zone offset of hr hours and mm minutes that the text v names.
ZoneOffset(st, v, hr, mm) ==
    IF hr.err \/ mm.err \/ hr.n > 24 \/ mm.n > 60 THEN ParseFailed(st)
    ELSE [st EXCEPT !.value = From(v, 7),
                    !.zoneOffset = (IF v[1] = "-" THEN -1 ELSE 1)
                                   * (hr.n * 60 + mm.n) * 60]

\* Z, or a sign, two digits, a colon and two digits.
Zone(st, v) ==
    IF v # <<>> /\ v[1] = "Z" THEN [st EXCEPT !.value = From(v, 2)]
    ELSE IF Len(v) < 6 \/ v[4] # ":" \/ v[1] \notin {"+", "-"} THEN ParseFailed(st)
    ELSE ZoneOffset(st, v, getnum(SubSeq(v, 2, 3), TRUE), getnum(SubSeq(v, 5, 6), TRUE))

Year(st) ==
    IF Len(st.value) < 4 \/ \E i \in 1..4 : ~isDigit(st.value, i) THEN ParseFailed(st)
    ELSE [st EXCEPT !.year = 1000 * DigitAt(st.value, 1) + 100 * DigitAt(st.value, 2)
                             + 10 * DigitAt(st.value, 3) + DigitAt(st.value, 4),
                    !.value = From(st.value, 5)]

\* One layout element read from the text.
ParseStd(std, st) ==
    CASE std = stdLongYear -> Year(st)
      [] std = stdZeroMonth -> Ranged(st, getnum(st.value, TRUE), 1, 12, "month")
      [] std = stdZeroDay -> Ranged(st, getnum(st.value, TRUE), 0, 99, "day")
      [] std = stdHour -> Ranged(st, getnum(st.value, FALSE), 0, 23, "hour")
      [] std = stdZeroMinute -> Ranged(st, getnum(st.value, TRUE), 0, 59, "min")
      [] std = stdZeroSecond ->
            Fraction(Ranged(st, getnum(st.value, TRUE), 0, 59, "sec"))
      [] std = stdISO8601ColonTZ -> Zone(st, st.value)

\* The loop of time.Parse over the layout: the literal text before the next
\* layout element, then the element.
RECURSIVE ParseChunks(_, _)
RECURSIVE ParseChunk(_, _)
RECURSIVE ParseRest(_, _)
ParseChunks(layout, st) == ParseChunk(nextStdChunk(layout), st)

ParseChunk(c, st) ==
    IF ~HasPrefix(st.value, c.prefix) THEN ParseFailed(st)
    ELSE IF c.std = <<>>
    THEN (IF st.value # c.prefix THEN ParseFailed(st) ELSE [st EXCEPT !.value = <<>>])
    ELSE ParseRest(c.suffix, ParseStd(c.std, [st EXCEPT !.value = TrimPrefix(st.value, c.prefix)]))

ParseRest(suffix, read) == IF read.ok THEN ParseChunks(suffix, read) ELSE read

\* What time.Parse returns for the fields read: the day of the month is
\* checked at the end.
ParsedTime(st) ==
    IF ~st.ok \/ st.day < 1 \/ st.day > daysIn(st.month, st.year)
    THEN [err |-> TRUE, t |-> ZeroTime]
    ELSE [err |-> FALSE,
          t |-> Date(st.year, st.month, st.day, st.hour, st.min, st.sec, st.frac,
                     st.zoneOffset)]

\* time.Parse(layout, value)
timeParse(layout, value) == ParsedTime(ParseChunks(layout, ParseStart(value)))

\* The first layout of formats that parses the text, or the zero time.
RECURSIVE FirstParsed(_, _, _)
RECURSIVE NextParsed(_, _, _, _)
FirstParsed(formats, i, text) ==
    IF i > Len(formats) THEN [err |-> TRUE, t |-> ZeroTime]
    ELSE NextParsed(timeParse(formats[i], text), formats, i, text)

NextParsed(parsed, formats, i, text) ==
    IF ~parsed.err THEN parsed ELSE FirstParsed(formats, i + 1, text)

\* The formats DateBefore and DateAfter try on a string field.
formats ==
    <<RFC3339, <<"2", "0", "0", "6", "-", "0", "1", "-", "0", "2", "T", "1", "5", ":", "0", "4", ":", "0", "5">>, <<"2", "0", "0", "6", "-", "0", "1", "-", "0", "2">>, <<"0", "1", "/", "0", "2", "/", "2", "0", "0", "6">>, <<"0", "2", "/", "0", "1", "/", "2", "0", "0", "6">>>>

\* if fieldTime.IsZero() { return false }
ParsedField(parsed) == [none |-> TimeIsZero(parsed.t), t |-> parsed.t]

\* The timestamp of a resolved field, or none: a time.Time, or a string that
\* one of the formats parses to another time than the zero time.
FieldTime(fieldValue) ==
    CASE fieldValue.k = "time" -> [none |-> FALSE, t |-> fieldValue]
      [] fieldValue.k = "string" -> ParsedField(FirstParsed(formats, 1, fieldValue.pv))
      [] OTHER -> [none |-> TRUE, t |-> ZeroTime]

\* The timestamp of the field that getFieldValue returned as fv, or none.
ResolvedTime(fv) == IF fv.err THEN [none |-> TRUE, t |-> ZeroTime] ELSE FieldTime(fv.val)

IsBefore(ft, date) == ~ft.none /\ TimeBefore(ft.t, date)

IsAfter(ft, date) == ~ft.none /\ TimeAfter(ft.t, date)

DateBefore(fieldName, date, item) ==
    IsBefore(ResolvedTime(getFieldValue(item, fieldName)), date)

DateAfter(fieldName, date, item) ==
    IsAfter(ResolvedTime(getFieldValue(item, fieldName)), date)

\* DateBetween: after one second before start and before one second after end.
DateBetween(fieldName, start, end, item) ==
    And(<<DateAfter(fieldName, TimeAdd(start, -1 * Second), item),
          DateBefore(fieldName, TimeAdd(end, 1 * Second), item)>>)

(***************************************************************************)
(* Filters as values, and filter.Apply                                     *)
(***************************************************************************)
\* A filter is [op, path, subs, arg, arg2]: the operator that built it, its field
\* path, its operand filters (And, Or, Not) and its operands.
Leaf(op, path, arg, arg2) ==
    [op |-> op, path |-> path, subs |-> <<>>, arg |-> arg, arg2 |-> arg2]

Combine(op, subs) == [op |-> op, path |-> <<>>, subs |-> subs, arg |-> 0, arg2 |-> 0]

\* Filter.Apply(item): the verdict of a filter on one item.
RECURSIVE Passes(_, _)
Passes(f, item) ==
    CASE f.op = "Eq"  -> Eq(f.path, f.arg, item)
      [] f.op = "Ne"  -> Ne(f.path, f.arg, item)
      [] f.op = "Gt"  -> Gt(f.path, f.arg, item)
      [] f.op = "Lt"  -> Lt(f.path, f.arg, item)
      [] f.op = "Gte" -> Gte(f.path, f.arg, item)
      [] f.op = "Lte" -> Lte(f.path, f.arg, item)
      [] f.op = "Contains" -> Contains(f.path, f.arg, item)
      [] f.op = "In" -> In(f.path, f.arg, item)
      [] f.op = "Between" -> Between(f.path, f.arg, f.arg2, item)
      [] f.op = "IsNil" -> IsNil(f.path, item)
      [] f.op = "IsNotNil" -> IsNotNil(f.path, item)
      [] f.op = "IsZero" -> IsZero(f.path, item)
      [] f.op = "IsNotZero" -> IsNotZero(f.path, item)
      [] f.op = "WithinRadius" ->
            WithinRadius(f.path, f.arg.lngField, f.arg.centerPoint, f.arg.radiusKm, item)
      [] f.op = "OutsideRadius" ->
            OutsideRadius(f.path, f.arg.lngField, f.arg.centerPoint, f.arg.radiusKm, item)
      [] f.op = "WithinBoundingBox" ->
            WithinBoundingBox(f.path, f.arg.lngField, f.arg.box, item)
      [] f.op = "HasKey" -> HasKey(f.path, f.arg, item)
      [] f.op = "HasValue" -> HasValue(f.path, f.arg, item)
      [] f.op = "MapSizeEquals" -> MapSizeEquals(f.path, f.arg, item)
      [] f.op = "MapSizeGreaterThan" -> MapSizeGreaterThan(f.path, f.arg, item)
      [] f.op = "MapSizeLessThan" -> MapSizeLessThan(f.path, f.arg, item)
      [] f.op = "DateBefore" -> DateBefore(f.path, f.arg, item)
      [] f.op = "DateAfter" -> DateAfter(f.path, f.arg, item)
      [] f.op = "DateBetween" -> DateBetween(f.path, f.arg, f.arg2, item)
      [] f.op = "And" -> And([i \in 1..Len(f.subs) |-> Passes(f.subs[i], item)])
      [] f.op = "Or"  -> Or([i \in 1..Len(f.subs) |-> Passes(f.subs[i], item)])
      [] f.op = "Not" -> Not(Passes(f.subs[1], item))
      [] f.op = "False" -> FALSE

\* A variant of filter.Apply that puts each passing item in front of the items
\* kept so far instead of appending it.
RECURSIVE ApplyPrepending(_, _)
ApplyPrepending(its, f) ==
    IF its = <<>> THEN <<>>
    ELSE ApplyPrepending(Tail(its), f) \o (IF Passes(f, Head(its)) THEN <<Head(its)>> ELSE <<>>)

\* filter.Apply: one pass over the slice, appending the items that pass.
RECURSIVE Apply(_, _)
Apply(its, f) ==
    IF its = <<>> THEN <<>>
    ELSE (IF Passes(f, Head(its)) THEN <<Head(its)>> ELSE <<>>) \o Apply(Tail(its), f)

(***************************************************************************)
(* filter.Sort                                                             *)
(***************************************************************************)
\* A variant of Sort's less function that ignores the direction.
SortLessAscending(data, i, j, fieldName, ascending) ==
    LET fieldValueI == getFieldValue(data[i], fieldName)
        fieldValueJ == getFieldValue(data[j], fieldName)
    IN  IF fieldValueI.err \/ fieldValueJ.err THEN FALSE
        ELSE LET less == compareValuesLess(fieldValueI.val, fieldValueJ.val)
             IN  ~less.err /\ less.res

\* The less function Sort hands to sort.Slice, on positions i and j of data.
SortLess(data, i, j, fieldName, ascending) ==
    LET fieldValueI == getFieldValue(data[i], fieldName)
        fieldValueJ == getFieldValue(data[j], fieldName)
    IN  IF fieldValueI.err THEN FALSE
        ELSE IF fieldValueJ.err THEN FALSE
        ELSE LET less == compareValuesLess(fieldValueI.val, fieldValueJ.val)
             IN  IF less.err THEN FALSE
                 ELSE IF ascending THEN less.res
                 ELSE ~less.res

Swap(data, i, j) == [data EXCEPT ![i] = data[j], ![j] = data[i]]

\* The inner loop of insertion sort: for j := i; j > a && less(j, j-1); j--.
RECURSIVE InsertDown(_, _, _, _)
InsertDown(data, j, fieldName, ascending) ==
    IF j > 1 /\ SortLess(data, j, j - 1, fieldName, ascending)
    THEN InsertDown(Swap(data, j, j - 1), j - 1, fieldName, ascending)
    ELSE data

RECURSIVE insertionSort(_, _, _, _)
insertionSort(data, i, fieldName, ascending) ==
    IF i > Len(data) THEN data
    ELSE insertionSort(InsertDown(data, i, fieldName, ascending), i + 1, fieldName, ascending)

\* sort.Slice with Sort's less function. Go's sort.Slice sorts a slice of at
\* most 12 elements by insertion sort; longer slices are outside the model.
sortSlice(data, fieldName, ascending) ==
    CASE Len(data) <= 12 -> insertionSort(data, 2, fieldName, ascending)

\* filter.Sort: sort.Slice on a copy of items.
Sort(its, fieldName, ascending) == sortSlice(its, fieldName, ascending)

(***************************************************************************)
(* The record type of the model                                            *)
(*                                                                         *)
(*   type Address struct { City string }                                   *)
(*   type User struct {                                                    *)
(*       Name   string   `gofilter:"filterable,sortable,column=name"`      *)
(*       Age    int8     `gofilter:"filterable,sortable"`                  *)
(*       Active bool     `gofilter:"filterable"`                           *)
(*       Score  float64  `gofilter:"sortable"`                             *)
(*       Addr   *Address                                                   *)
(*       Lat    int                                                        *)
(*       Lng    int                                                        *)
(*       Meta   map[string]int                                             *)
(*       SSN    string                                                     *)
(*   }                                                                     *)
(***************************************************************************)
sName == <<"N", "a", "m", "e">>

sAge == <<"A", "g", "e">>

sActive == <<"A", "c", "t", "i", "v", "e">>

sScore == <<"S", "c", "o", "r", "e">>

sAddr == <<"A", "d", "d", "r">>

sCity == <<"C", "i", "t", "y">>

sLat == <<"L", "a", "t">>

sLng == <<"L", "n", "g">>

sMeta == <<"M", "e", "t", "a">>

sSSN == <<"S", "S", "N">>

sFilterableTag == <<"f", "i", "l", "t", "e", "r", "a", "b", "l", "e">>

sSortableTag == <<"s", "o", "r", "t", "a", "b", "l", "e">>

Address(city) == Struct(sCity :> VStr(city))

User(name, age, active, score, addr, lat, meta) ==
    Struct(sName :> VStr(name) @@ sAge :> VInt8(age) @@ sActive :> VBool(active)
           @@ sScore :> VFloat64(score) @@ sAddr :> addr @@ sLat :> VInt(lat)
           @@ sLng :> VInt(0) @@ sMeta :> meta @@ sSSN :> VStr(<<"7">>))

\* The struct fields of User as reflect lists them: name, gofilter tag, kind.
UserType ==
    <<[name |-> sName, tag |-> <<"f", "i", "l", "t", "e", "r", "a", "b", "l", "e", ",", "s", "o", "r", "t", "a", "b", "l", "e", ",", "c", "o", "l", "u", "m", "n", "=", "n", "a", "m", "e">>,
       kind |-> "string"],
      [name |-> sAge, tag |-> <<"f", "i", "l", "t", "e", "r", "a", "b", "l", "e", ",", "s", "o", "r", "t", "a", "b", "l", "e">>, kind |-> "int8"],
      [name |-> sActive, tag |-> sFilterableTag, kind |-> "bool"],
      [name |-> sScore, tag |-> sSortableTag, kind |-> "float64"],
      [name |-> sAddr, tag |-> <<>>, kind |-> "ptr"],
      [name |-> sLat, tag |-> <<>>, kind |-> "int"],
      [name |-> sLng, tag |-> <<>>, kind |-> "int"],
      [name |-> sMeta, tag |-> <<>>, kind |-> "map"],
      [name |-> sSSN, tag |-> <<>>, kind |-> "string"]>>

(***************************************************************************)
(* A second record type, with a timestamp, a field whose key ends like an  *)
(* operator, two fields under one key and a field under a reserved key     *)
(*                                                                         *)
(*   type Booking struct {                                                 *)
(*       At      time.Time `gofilter:"filterable,sortable"`                *)
(*       CheckIn int8      `gofilter:"filterable"`                         *)
(*       Day     string    `gofilter:"filterable"`                         *)
(*       Date    string    `gofilter:"filterable,column=day"`              *)
(*       Limit   int       `gofilter:"filterable"`                         *)
(*   }                                                                     *)
(***************************************************************************)
sAt == <<"A", "t">>

sCheckIn == <<"C", "h", "e", "c", "k", "I", "n">>

sDay == <<"D", "a", "y">>

sDate == <<"D", "a", "t", "e">>

sLimitField == <<"L", "i", "m", "i", "t">>

Booking(at, checkIn, day, date, limit) ==
    Struct(sAt :> at @@ sCheckIn :> VInt8(checkIn) @@ sDay :> VStr(day)
           @@ sDate :> VStr(date) @@ sLimitField :> VInt(limit))

BookingType ==
    <<[name |-> sAt, tag |-> <<"f", "i", "l", "t", "e", "r", "a", "b", "l", "e", ",", "s", "o", "r", "t", "a", "b", "l", "e">>, kind |-> "time"],
      [name |-> sCheckIn, tag |-> sFilterableTag, kind |-> "int8"],
      [name |-> sDay, tag |-> sFilterableTag, kind |-> "string"],
      [name |-> sDate, tag |-> <<"f", "i", "l", "t", "e", "r", "a", "b", "l", "e", ",", "c", "o", "l", "u", "m", "n", "=", "d", "a", "y">>, kind |-> "string"],
      [name |-> sLimitField, tag |-> sFilterableTag, kind |-> "int"]>>

(***************************************************************************)
(* Machine integers: Go's int, 64 bits in two's complement, as its eight    *)
(* bytes, lowest first (TLC's own integers have 32 bits)                   *)
(***************************************************************************)
WordBytes == 1..8

WZero == <<0, 0, 0, 0, 0, 0, 0, 0>>

\* The word of an integer of the model, 0 <= n < 2^31.
WNat(n) == <<n % 256, (n \div 256) % 256, (n \div 65536) % 256, (n \div 16777216) % 256,
            0, 0, 0, 0>>

\* The bytes of a + b from byte i on, carry being the carry into byte i.
RECURSIVE AddFrom(_, _, _, _)
AddFrom(a, b, i, carry) ==
    IF i > 8 THEN <<>>
    ELSE <<(a[i] + b[i] + carry) % 256>> \o AddFrom(a, b, i + 1, (a[i] + b[i] + carry) \div 256)

\* a + b, wrapping.
WAdd(a, b) == AddFrom(a, b, 1, 0)

RECURSIVE NotFrom(_, _)
NotFrom(a, i) == IF i > 8 THEN <<>> ELSE <<255 - a[i]>> \o NotFrom(a, i + 1)

WNot(a) == NotFrom(a, 1)

\* -a, wrapping.
WNeg(a) == WAdd(WNot(a), WNat(1))

\* a - b, wrapping.
WSub(a, b) == WAdd(a, WNeg(b))

WInt(n) == IF n >= 0 THEN WNat(n) ELSE WNeg(WNat(0 - n))

\* The i-th column of the product: the sum of a[j] * b[i + 1 - j], j in 1..n.
RECURSIVE ColumnSum(_, _, _, _)
ColumnSum(a, b, i, n) ==
    IF n = 0 THEN 0 ELSE a[n] * b[i + 1 - n] + ColumnSum(a, b, i, n - 1)

\* The bytes of a * b from byte i on, carry being the carry into byte i.
RECURSIVE MulFrom(_, _, _, _)
MulFrom(a, b, i, carry) ==
    IF i > 8 THEN <<>>
    ELSE <<(ColumnSum(a, b, i, i) + carry) % 256>>
         \o MulFrom(a, b, i + 1, (ColumnSum(a, b, i, i) + carry) \div 256)

\* a * b, wrapping.
WMul(a, b) == MulFrom(a, b, 1, 0)

\* The carry out of byte 8 of a * b.
RECURSIVE MulCarry(_, _, _)
MulCarry(a, b, i) ==
    IF i = 0 THEN 0 ELSE (ColumnSum(a, b, i, i) + MulCarry(a, b, i - 1)) \div 256

\* Whether a * b as unsigned numbers exceeds 64 bits.
WMulOverflows(a, b) ==
    \/ \E i, j \in WordBytes : i + j > 9 /\ a[i] * b[j] > 0
    \/ MulCarry(a, b, 8) > 0

WNegative(a) == a[8] >= 128

\* a < b as unsigned numbers.
RECURSIVE WBelow(_, _, _)
WBelow(a, b, i) ==
    IF i = 0 THEN FALSE
    ELSE IF a[i] # b[i] THEN a[i] < b[i]
    ELSE WBelow(a, b, i - 1)

\* a < b as Go ints.
WLess(a, b) ==
    IF WNegative(a) # WNegative(b) THEN WNegative(a) ELSE WBelow(a, b, 8)

\* Whether the word is an integer of the model, 0 <= n < 2^24, and which.
WSmall(a) == \A i \in 4..8 : a[i] = 0

WValue(a) == a[1] + 256 * a[2] + 65536 * a[3]

(***************************************************************************)
(* strconv                                                                 *)
(***************************************************************************)
AllDigits(s) == \A i \in 1..Len(s) : InSeq(s[i], Digits)

DigitValue(c) == IndexOf(c, Digits) - 1

\* The number a digit string of at most 9 digits denotes.
RECURSIVE DigitsValue(_)
DigitsValue(s) ==
    IF s = <<>> THEN 0 ELSE 10 * DigitsValue(SubSeq(s, 1, Len(s) - 1)) + DigitValue(s[Len(s)])

\* front * 10 + digit, with whether it left the 64 bits.
Shifted(front, prod, digit) ==
    [w |-> WAdd(prod, digit),
     over |-> front.over \/ WMulOverflows(front.w, WNat(10)) \/ WBelow(WAdd(prod, digit), prod, 8)]

AddDigit(front, c) == Shifted(front, WMul(front.w, WNat(10)), WNat(DigitValue(c)))

RECURSIVE DigitsFrom(_, _, _)
DigitsFrom(s, i, front) ==
    IF i > Len(s) \/ front.over THEN front ELSE DigitsFrom(s, i + 1, AddDigit(front, s[i]))

\* The number a digit string denotes, as a word, with whether it left 64 bits.
DigitsWord(s) == DigitsFrom(s, 1, [w |-> WZero, over |-> FALSE])

HasSign(s) == s # <<>> /\ s[1] \in {"+", "-"}

Unsigned(s) == IF HasSign(s) THEN Tail(s) ELSE s

AtoiError == [err |-> TRUE, w |-> WZero]

\* The int of a sign and a magnitude m: out of range beyond 2^63 - 1, or
\* beyond 2^63 when negative.
Signed(neg, m) ==
    IF m.over THEN AtoiError
    ELSE IF ~neg /\ WNegative(m.w) THEN AtoiError
    ELSE IF neg /\ WNegative(m.w) /\ m.w # WNeg(m.w) THEN AtoiError
    ELSE [err |-> FALSE, w |-> IF neg THEN WNeg(m.w) ELSE m.w]

\* strconv.Atoi: a decimal int, an error when malformed or out of range.
Atoi(s) ==
    IF Unsigned(s) = <<>> \/ ~AllDigits(Unsigned(s)) THEN AtoiError
    ELSE Signed(HasSign(s) /\ s[1] = "-", DigitsWord(Unsigned(s)))

SignedMin(bitSize) == CASE bitSize = 8 -> -128 [] bitSize = 64 -> -999999999

SignedMax(bitSize) == CASE bitSize = 8 -> 127 [] bitSize = 64 -> 999999999

\* strconv.ParseInt(s, 10, bitSize) for digit strings of at most 9 digits
\* (longer ones are outside the model), an error when out of the bit size.
ParseInt(s, bitSize) ==
    LET ds == Unsigned(s)
    IN  IF ds = <<>> \/ ~AllDigits(ds) THEN [err |-> TRUE, n |-> 0]
        ELSE CASE Len(ds) <= 9 ->
                 LET n == IF s[1] = "-" THEN -DigitsValue(ds) ELSE DigitsValue(ds)
                 IN  IF n < SignedMin(bitSize) \/ n > SignedMax(bitSize)
                     THEN [err |-> TRUE, n |-> 0]
                     ELSE [err |-> FALSE, n |-> n]

\* strconv.ParseUint(s, 10, 8): no sign is accepted.
ParseUint(s, bitSize) ==
    IF s = <<>> \/ ~AllDigits(s) THEN [err |-> TRUE, n |-> 0]
    ELSE CASE Len(s) <= 9 /\ bitSize = 8 ->
             IF DigitsValue(s) > 255 THEN [err |-> TRUE, n |-> 0]
             ELSE [err |-> FALSE, n |-> DigitsValue(s)]

\* strconv.ParseFloat(s, 64) on decimal texts: digits, then nothing, "." or
\* ".0" or ".5"; the result counts halves. A text with another character is
\* an error; longer fractions and exponents are outside the model.
ParseFloat(s) ==
    LET ds    == Unsigned(s)
        dot   == StrIndex(ds, sDot)
        whole == IF dot = 0 THEN ds ELSE SubSeq(ds, 1, dot - 1)
        frac  == IF dot = 0 THEN <<>> ELSE SubSeq(ds, dot + 1, Len(ds))
        sign  == IF HasSign(s) /\ s[1] = "-" THEN -1 ELSE 1
    IN  IF ~AllDigits(whole) \/ ~AllDigits(frac) \/ (whole = <<>> /\ frac = <<>>)
        THEN [err |-> TRUE, h |-> 0]
        ELSE CASE Len(whole) <= 8 /\ frac \in {<<>>, <<"0">>, <<"5">>} ->
                 [err |-> FALSE,
                  h |-> sign * (2 * DigitsValue(whole) + (IF frac = <<"5">> THEN 1 ELSE 0))]

TrueTexts == {<<"1">>, <<"t">>, <<"T">>, <<"T", "R", "U", "E">>, <<"t", "r", "u", "e">>, <<"T", "r", "u", "e">>}

FalseTexts == {<<"0">>, <<"f">>, <<"F">>, <<"F", "A", "L", "S", "E">>, <<"f", "a", "l", "s", "e">>, <<"F", "a", "l", "s", "e">>}

ParseBool(s) ==
    IF s \in TrueTexts THEN [err |-> FALSE, b |-> TRUE]
    ELSE IF s \in FalseTexts THEN [err |-> FALSE, b |-> FALSE]
    ELSE [err |-> TRUE, b |-> FALSE]

(***************************************************************************)
(* query/errors.go: the errors, as records [etype, Field, Value, ...]       *)
(***************************************************************************)
NoError ==
    [etype |-> "none", Field |-> <<>>, Value |-> <<>>, ExpectedType |-> "",
     Requested |-> WZero, Max |-> WZero]

ErrFieldNotFilterable(field) ==
    [etype |-> "ErrFieldNotFilterable", Field |-> field, Value |-> <<>>, ExpectedType |-> "",
     Requested |-> WZero, Max |-> WZero]

ErrFieldNotSortable(field) ==
    [etype |-> "ErrFieldNotSortable", Field |-> field, Value |-> <<>>, ExpectedType |-> "",
     Requested |-> WZero, Max |-> WZero]

ErrInvalidValue(field, raw, expectedType) ==
    [etype |-> "ErrInvalidValue", Field |-> field, Value |-> raw,
     ExpectedType |-> expectedType, Requested |-> WZero, Max |-> WZero]

ErrLimitExceeded(requested, max) ==
    [etype |-> "ErrLimitExceeded", Field |-> <<>>, Value |-> <<>>, ExpectedType |-> "",
     Requested |-> requested, Max |-> max]

(***************************************************************************)
(* query/tags.go                                                           *)
(***************************************************************************)
sFilterable == <<"f", "i", "l", "t", "e", "r", "a", "b", "l", "e">>

sSortable == <<"s", "o", "r", "t", "a", "b", "l", "e">>

sColumnEq == <<"c", "o", "l", "u", "m", "n", "=">>

sComma == <<",">>

sUnderscore == <<"_">>

IsUpper(c) == InSeq(c, Upper)

IsLower(c) == InSeq(c, Lower)

ToLower(c) == IF IsUpper(c) THEN Lower[IndexOf(c, Upper)] ELSE c

\* What toSnakeCase appends for the rune at position i.
SnakeRune(runes, i) ==
    IF IsUpper(runes[i])
    THEN (IF i > 1 /\ (\/ IsLower(runes[i - 1])
                       \/ /\ IsUpper(runes[i - 1])
                          /\ i + 1 <= Len(runes)
                          /\ IsLower(runes[i + 1]))
          THEN sUnderscore ELSE <<>>) \o <<ToLower(runes[i])>>
    ELSE <<runes[i]>>

RECURSIVE SnakeFrom(_, _)
SnakeFrom(runes, i) ==
    IF i > Len(runes) THEN <<>> ELSE SnakeRune(runes, i) \o SnakeFrom(runes, i + 1)

toSnakeCase(s) == SnakeFrom(s, 1)

\* The loop over the parts of one tag, on the fieldInfo so far.
RECURSIVE TagParts(_, _, _)
TagParts(parts, i, info) ==
    IF i > Len(parts) THEN info
    ELSE LET part == TrimSpace(parts[i])
         IN  TagParts(parts, i + 1,
                 IF part = sFilterable THEN [info EXCEPT !.filterable = TRUE]
                 ELSE IF part = sSortable THEN [info EXCEPT !.sortable = TRUE]
                 ELSE IF HasPrefix(part, sColumnEq)
                      THEN [info EXCEPT !.column = TrimPrefix(part, sColumnEq)]
                 ELSE info)

\* The fieldInfo of one struct field sf = [name, tag, kind].
TagInfo(sf) ==
    TagParts(Split(sf.tag, sComma), 1,
             [structField |-> sf.name, column |-> toSnakeCase(sf.name),
              filterable |-> FALSE, sortable |-> FALSE, fieldType |-> sf.kind])

\* The loop over the struct fields, on the registry so far.
RECURSIVE RegisterFrom(_, _, _)
RegisterFrom(t, i, reg) ==
    IF i > Len(t) THEN reg
    ELSE IF t[i].tag = <<>> THEN RegisterFrom(t, i + 1, reg)
    ELSE LET info == TagInfo(t[i])
         IN  IF ~info.filterable THEN RegisterFrom(t, i + 1, reg)
             ELSE RegisterFrom(t, i + 1,
                      [fields |-> Append(reg.fields, info),
                       byColumn |-> (info.column :> info) @@ reg.byColumn])

\* parseStructTags[T]: t is the sequence of T's struct fields.
parseStructTags(t) == RegisterFrom(t, 1, [fields |-> <<>>, byColumn |-> <<>>])

(***************************************************************************)
(* query/coerce.go                                                         *)
(***************************************************************************)
CoerceError == [err |-> TRUE, val |-> Invalid]

Coerced(value) == [err |-> FALSE, val |-> value]

\* What coerceValue returns for the outcome r of the strconv call.
IntValue(r, kind) == IF r.err THEN CoerceError ELSE Coerced([k |-> kind, pv |-> r.n])

FloatValue(r) == IF r.err THEN CoerceError ELSE Coerced(VFloat64(r.h))

BoolValue(r) == IF r.err THEN CoerceError ELSE Coerced(VBool(r.b))

\* parseTime: RFC3339, then the date alone.
TimeValue(parsed) == IF parsed.err THEN CoerceError ELSE Coerced(parsed.t)

parseTime(raw) == TimeValue(FirstParsed(<<RFC3339, <<"2", "0", "0", "6", "-", "0", "1", "-", "0", "2">>>>, 1, raw))

\* coerceValue, on the kinds of the model.
coerceValue(raw, targetType) ==
    CASE targetType = "time" -> parseTime(raw)
      [] targetType = "string" -> Coerced(VStr(raw))
      [] targetType = "int" -> IntValue(ParseInt(raw, 64), "int")
      [] targetType = "int8" -> IntValue(ParseInt(raw, 8), "int8")
      [] targetType = "uint8" -> IntValue(ParseUint(raw, 8), "uint8")
      [] targetType = "float64" -> FloatValue(ParseFloat(raw))
      [] targetType = "bool" -> BoolValue(ParseBool(raw))
      [] OTHER -> CoerceError

(***************************************************************************)
(* query/parser.go                                                         *)
(***************************************************************************)
operators ==
    <<<<"b", "e", "t", "w", "e", "e", "n">>,
      <<"c", "o", "n", "t", "a", "i", "n", "s">>,
      <<"g", "t", "e">>,
      <<"g", "t">>,
      <<"l", "t", "e">>,
      <<"l", "t">>,
      <<"n", "e">>,
      <<"i", "n">>>>

sSort == <<"s", "o", "r", "t">>

sPage == <<"p", "a", "g", "e">>

sLimit == <<"l", "i", "m", "i", "t">>

sEq == <<"e", "q">>

sMinus == <<"-">>

reservedParams == {sSort, sPage, sLimit}

RECURSIVE SplitFrom(_, _)
SplitFrom(param, i) ==
    IF i > Len(operators) THEN [column |-> param, operator |-> sEq]
    ELSE LET suffix == sUnderscore \o operators[i]
         IN  IF HasSuffix(param, suffix)
             THEN [column |-> TrimSuffix(param, suffix), operator |-> operators[i]]
             ELSE SplitFrom(param, i + 1)

\* A variant of splitParamOperator that takes the first operator found anywhere
\* in the key after an underscore, not only at its end.
RECURSIVE SplitAnywhere(_, _)
SplitAnywhere(param, i) ==
    IF i > Len(operators) THEN [column |-> param, operator |-> sEq]
    ELSE LET suffix == sUnderscore \o operators[i]
         IN  IF StrContains(param, suffix)
             THEN [column |-> TrimSuffix(param, suffix), operator |-> operators[i]]
             ELSE SplitAnywhere(param, i + 1)

splitParamOperatorAnywhere(param) == SplitAnywhere(param, 1)

splitParamOperator(param) == SplitFrom(param, 1)

parseSortParam(raw, registry) ==
    LET asc   == ~HasPrefix(raw, sMinus)
        field == IF HasPrefix(raw, sMinus) THEN Tail(raw) ELSE raw
    IN  IF field \notin DOMAIN registry.byColumn
        THEN [err |-> ErrFieldNotSortable(field), sortField |-> <<>>, asc |-> FALSE]
        ELSE IF ~registry.byColumn[field].sortable
        THEN [err |-> ErrFieldNotSortable(field), sortField |-> <<>>, asc |-> FALSE]
        ELSE [err |-> NoError, sortField |-> registry.byColumn[field].structField,
              asc |-> asc]

OperandError == [err |-> TRUE, operand |-> <<>>]

\* The loop of the "in" case: the coerced parts, or the first error.
RECURSIVE CoerceParts(_, _, _, _)
RECURSIVE PartCoerced(_, _, _, _, _)
CoerceParts(parts, i, fieldType, vals) ==
    IF i > Len(parts) THEN [err |-> FALSE, operand |-> vals]
    ELSE PartCoerced(coerceValue(TrimSpace(parts[i]), fieldType), parts, i, fieldType, vals)

PartCoerced(c, parts, i, fieldType, vals) ==
    IF c.err THEN OperandError ELSE CoerceParts(parts, i + 1, fieldType, Append(vals, c.val))

\* The "between" case, on the coerced ends.
BetweenOperand(min, max) ==
    IF min.err \/ max.err THEN OperandError
    ELSE [err |-> FALSE, operand |-> <<min.val, max.val>>]

BetweenParts(parts, fieldType) ==
    IF Len(parts) # 2 THEN OperandError
    ELSE BetweenOperand(coerceValue(TrimSpace(parts[1]), fieldType),
                        coerceValue(TrimSpace(parts[2]), fieldType))

SingleOperand(c) == [err |-> c.err, operand |-> c.val]

coerceFilterValue(raw, op, info) ==
    IF op = <<"i", "n">>
    THEN CoerceParts(Split(raw, sComma), 1, info.fieldType, <<>>)
    ELSE IF op = <<"b", "e", "t", "w", "e", "e", "n">>
    THEN BetweenParts(SplitN(raw, sComma, 2), info.fieldType)
    ELSE SingleOperand(coerceValue(raw, info.fieldType))

\* How one iteration of parseParams' loop ends: on to the next key with the
\* result so far, or out of parseParams with an error.
Continue(result) == [err |-> NoError, q |-> result]

Fail(error, result) == [err |-> error, q |-> result]

\* case "sort", on what parseSortParam returned.
SortParsed(sp, result) ==
    IF sp.err # NoError THEN Fail(sp.err, result)
    ELSE Continue([result EXCEPT !.sortField = sp.sortField, !.sortAsc = sp.asc])

\* A variant of case "page" that stores the number as the page size.
PageParsedAsLimit(pg, raw, result) ==
    IF pg.err \/ WLess(pg.w, WNat(1))
    THEN Fail(ErrInvalidValue(sPage, raw, "positive integer"), result)
    ELSE Continue([result EXCEPT !.limit = pg.w])

\* case "page", on what strconv.Atoi returned.
PageParsed(pg, raw, result) ==
    IF pg.err \/ WLess(pg.w, WNat(1))
    THEN Fail(ErrInvalidValue(sPage, raw, "positive integer"), result)
    ELSE Continue([result EXCEPT !.page = pg.w])

\* A variant of case "limit" that rejects the maximum itself.
LimitParsedBelowMax(lm, raw, opts, result) ==
    IF lm.err \/ WLess(lm.w, WNat(1))
    THEN Fail(ErrInvalidValue(sLimit, raw, "positive integer"), result)
    ELSE IF WLess(WZero, opts.maxLimit) /\ ~WLess(lm.w, opts.maxLimit)
    THEN Fail(ErrLimitExceeded(lm.w, opts.maxLimit), result)
    ELSE Continue([result EXCEPT !.limit = lm.w])

\* case "limit", on what strconv.Atoi returned.
LimitParsed(lm, raw, opts, result) ==
    IF lm.err \/ WLess(lm.w, WNat(1))
    THEN Fail(ErrInvalidValue(sLimit, raw, "positive integer"), result)
    ELSE IF WLess(WZero, opts.maxLimit) /\ WLess(opts.maxLimit, lm.w)
    THEN Fail(ErrLimitExceeded(lm.w, opts.maxLimit), result)
    ELSE Continue([result EXCEPT !.limit = lm.w])

\* A filter key, on what coerceFilterValue returned for its field.
FilterCoerced(info, operator, coerced, raw, result) ==
    IF coerced.err
    THEN Fail(ErrInvalidValue(info.structField, raw, info.fieldType), result)
    ELSE Continue([result EXCEPT !.filters =
                      Append(@, [operator |-> operator, field |-> info.structField,
                                 operand |-> coerced.operand])])

\* A filter key, on what splitParamOperator returned.
FilterParsed(sp, raw, registry, result) ==
    IF sp.column \notin DOMAIN registry.byColumn
    THEN Fail(ErrFieldNotFilterable(sp.column), result)
    ELSE FilterCoerced(registry.byColumn[sp.column], sp.operator,
                       coerceFilterValue(raw, sp.operator, registry.byColumn[sp.column]),
                       raw, result)

\* One iteration of parseParams' loop, for the key param, on the result so far.
ParseParam(params, param, registry, opts, result) ==
    IF Len(params[param]) = 0 THEN Continue(result)
    ELSE IF param = sSort
    THEN SortParsed(parseSortParam(params[param][1], registry), result)
    ELSE IF param = sPage
    THEN PageParsed(Atoi(params[param][1]), params[param][1], result)
    ELSE IF param = sLimit
    THEN LimitParsed(Atoi(params[param][1]), params[param][1], opts, result)
    ELSE FilterParsed(splitParamOperator(param), params[param][1], registry, result)

\* The loop over the map params; order is the order in which this run of the
\* program ranges over its keys, which Go leaves unspecified.
RECURSIVE ParseFrom(_, _, _, _, _, _)
RECURSIVE ParseNext(_, _, _, _, _, _)
ParseFrom(params, order, i, registry, opts, result) ==
    IF i > Len(order) THEN Continue(result)
    ELSE ParseNext(ParseParam(params, order[i], registry, opts, result),
                   params, order, i, registry, opts)

ParseNext(step, params, order, i, registry, opts) ==
    IF step.err # NoError THEN step
    ELSE ParseFrom(params, order, i + 1, registry, opts, step.q)

\* parseParams[T](params, opts), T given by its struct fields t.
parseParams(t, params, order, opts) ==
    ParseFrom(params, order, 1, parseStructTags(t), opts,
              [filters |-> <<>>, sortField |-> <<>>, sortAsc |-> FALSE,
               page |-> WNat(1), limit |-> opts.defaultLimit])

(***************************************************************************)
(* The query package: options, Apply, ApplyPaginated, buildFilter          *)
(***************************************************************************)
defaultOptions ==
    [defaultLimit |-> WNat(20), maxLimit |-> WZero, defaultSort |-> <<>>,
     defaultSortAsc |-> FALSE]

WithMaxLimit(max, o) == [o EXCEPT !.maxLimit = max]

WithDefaultSort(field, ascending, o) ==
    [o EXCEPT !.defaultSort = field, !.defaultSortAsc = ascending]

WithDefaultLimit(limit, o) == [o EXCEPT !.defaultLimit = limit]

buildFilter(pf) ==
    CASE pf.operator = sEq -> Leaf("Eq", pf.field, pf.operand, 0)
      [] pf.operator = <<"n", "e">> -> Leaf("Ne", pf.field, pf.operand, 0)
      [] pf.operator = <<"g", "t">> -> Leaf("Gt", pf.field, pf.operand, 0)
      [] pf.operator = <<"g", "t", "e">> -> Leaf("Gte", pf.field, pf.operand, 0)
      [] pf.operator = <<"l", "t">> -> Leaf("Lt", pf.field, pf.operand, 0)
      [] pf.operator = <<"l", "t", "e">> -> Leaf("Lte", pf.field, pf.operand, 0)
      [] pf.operator = <<"c", "o", "n", "t", "a", "i", "n", "s">> -> Leaf("Contains", pf.field, pf.operand, 0)
      [] pf.operator = <<"i", "n">> -> Leaf("In", pf.field, pf.operand, 0)
      [] pf.operator = <<"b", "e", "t", "w", "e", "e", "n">> ->
            Leaf("Between", pf.field, pf.operand[1], pf.operand[2])
      [] OTHER -> Leaf("False", <<>>, 0, 0)

\* A variant of the filter step that combines the filters with Or.
FilteredAny(its, parsed) ==
    IF Len(parsed.filters) > 0
    THEN Apply(its, Combine("Or", [i \in 1..Len(parsed.filters) |->
                                      buildFilter(parsed.filters[i])]))
    ELSE its

\* The filter step Apply and ApplyPaginated share.
Filtered(its, parsed) ==
    IF Len(parsed.filters) > 0
    THEN Apply(its, Combine("And", [i \in 1..Len(parsed.filters) |->
                                       buildFilter(parsed.filters[i])]))
    ELSE its

\* The sort step they share: by the parsed field, else by the default one.
Sorted(result, parsed, o) ==
    IF parsed.sortField = <<>> /\ o.defaultSort # <<>>
    THEN Sort(result, o.defaultSort, o.defaultSortAsc)
    ELSE IF parsed.sortField # <<>>
    THEN Sort(result, parsed.sortField, parsed.sortAsc)
    ELSE result

FilterAndSort(its, parsed, o) == Sorted(Filtered(its, parsed), parsed, o)

\* What an invocation returns: res tells a slice, a page, a nil result with an
\* error, and a run-time panic apart.
Result(res, out, err) ==
    [res |-> res, out |-> out, err |-> err, Total |-> 0, Page |-> WZero, Limit |-> WZero,
     HasNext |-> FALSE]

\* query.Apply after parseParams.
Answer(parsed, its, o) ==
    IF parsed.err # NoError THEN Result("nil", <<>>, parsed.err)
    ELSE Result("slice", FilterAndSort(its, parsed.q, o), NoError)

\* query.Apply[T](items, params, opts...), o being the options applied.
QueryApply(t, its, params, order, o) == Answer(parseParams(t, params, order, o), its, o)

\* if position > total { position = total }
Clamp(position, total) == IF WLess(total, position) THEN total ELSE position

\* result[start:end] and the PageResult; the slice expression panics unless
\* 0 <= start <= end <= cap(result).
Window(result, page, limit, start, end) ==
    IF WNegative(start) \/ WLess(end, start)
    THEN Result("panic", <<>>, NoError)
    ELSE [res |-> "page", out |-> SubSeq(result, WValue(start) + 1, WValue(end)),
          err |-> NoError, Total |-> Len(result), Page |-> page, Limit |-> limit,
          HasNext |-> WLess(end, WNat(Len(result)))]

\* end := start + limit, clamped.
PageFrom(result, page, limit, start) ==
    Window(result, page, limit, start, Clamp(WAdd(start, limit), WNat(Len(result))))

\* start := (page - 1) * limit, clamped.
PageOf(result, page, limit) ==
    PageFrom(result, page, limit,
             Clamp(WMul(WSub(page, WNat(1)), limit), WNat(Len(result))))

\* query.ApplyPaginated after parseParams.
Paginated(parsed, its, o) ==
    IF parsed.err # NoError THEN Result("nil", <<>>, parsed.err)
    ELSE PageOf(FilterAndSort(its, parsed.q, o), parsed.q.page,
                IF ~WLess(WZero, parsed.q.limit) THEN o.defaultLimit ELSE parsed.q.limit)

\* query.ApplyPaginated[T](items, params, opts...)
ApplyPaginated(t, its, params, order, o) ==
    Paginated(parseParams(t, params, order, o), its, o)

(***************************************************************************)
(* Specification Spec: filter.Apply on slices of the item pool             *)
(***************************************************************************)
MaxItems == 3

\* All sequences over S of length at most n.
SeqsUpTo(S, n) == UNION {[1..m -> S] : m \in 0..n}

sMissing == <<"M", "i", "s", "s", "i", "n", "g">>

sAddrCity == sAddr \o sDot \o sCity

\* A path through a member that is no struct.
sAgeX == sAge \o sDot \o <<"X">>

NoMeta == Map(<<>>, "string", TRUE)

userA == User(<<"a">>, 1, TRUE, 3, Ptr(Address(<<"x">>)), 1,
              Map(<<"k">> :> VInt(1), "string", FALSE))

userB == User(<<"b">>, 0, FALSE, 0, NilPtr, 0, NoMeta)

userC == User(<<>>, -1, TRUE, -1, Ptr(Address(<<>>)), 3, Map(<<>>, "string", FALSE))

\* The items of a []any: structs, a nil *User and a value that is no struct.
FilterPool == {userA, userB, userC, NilPtr, VInt(7)}

CompareOps == {"Eq", "Ne", "Gt", "Lt", "Gte", "Lte"}

\* Field paths with operands of the field's kind and of other kinds.
FieldOperands ==
    {<<sAge, VInt8(0)>>, <<sAge, VInt8(1)>>, <<sAge, VInt(300)>>, <<sAge, VFloat64(1)>>,
     <<sAge, VInt(0)>>, <<sAge, VInt(200)>>, <<sAge, VInt(257)>>,
     <<sAge, VStr(<<"a">>)>>, <<sName, VStr(<<"a">>)>>, <<sName, VInt(97)>>,
     <<sActive, VBool(TRUE)>>, <<sActive, VBool(FALSE)>>,
     <<sScore, VFloat64(3)>>, <<sScore, VInt(0)>>,
     <<sAddrCity, VStr(<<"x">>)>>, <<sAddr, VInt(0)>>,
     <<sMissing, VInt(0)>>, <<sAgeX, VInt(0)>>}

RangeOperands ==
    {<<sAge, VInt8(0), VInt8(1)>>, <<sAge, VInt8(-1), VInt8(0)>>, <<sAge, VInt(-1), VInt(300)>>,
     <<sName, VStr(<<"a">>), VStr(<<"b">>)>>, <<sName, VStr(<<>>), VStr(<<"a">>)>>,
     <<sActive, VBool(FALSE), VBool(TRUE)>>, <<sActive, VBool(TRUE), VBool(TRUE)>>,
     <<sScore, VFloat64(0), VFloat64(3)>>, <<sScore, VFloat64(-1), VFloat64(0)>>,
     <<sAddrCity, VStr(<<>>), VStr(<<"x">>)>>,
     <<sMissing, VInt(0), VInt(1)>>, <<sAgeX, VInt(0), VInt(1)>>}

UnaryPaths == {sAge, sName, sAddr, sAddrCity, sMeta, sMissing, sAgeX}

Origin == [Lat |-> 0, Lng |-> 0]

Circle(lngField, radiusKm) ==
    [centerPoint |-> Origin, lngField |-> lngField, radiusKm |-> radiusKm]

Box(lngField) ==
    [box |-> [SouthWest |-> [Lat |-> 0, Lng |-> 0], NorthEast |-> [Lat |-> 2, Lng |-> 0]],
     lngField |-> lngField]

LeafFilters ==
    {Leaf(op, fo[1], fo[2], 0) : op \in CompareOps, fo \in FieldOperands}
    \cup {Leaf("Contains", fo[1], fo[2], 0) :
            fo \in {<<sName, VStr(<<"a">>)>>, <<sAddrCity, VStr(<<"x">>)>>,
                    <<sMissing, VStr(<<"a">>)>>, <<sAgeX, VStr(<<"a">>)>>}}
    \cup {Leaf("In", path, <<VInt8(0), VInt8(1)>>, 0) : path \in {sAge, sMissing, sAgeX}}
    \cup {Leaf("Between", ro[1], ro[2], ro[3]) : ro \in RangeOperands}
    \cup {Leaf(op, path, 0, 0) :
            op \in {"IsNil", "IsNotNil", "IsZero", "IsNotZero"}, path \in UnaryPaths}
    \cup {Leaf(op, lat, Circle(lng, r), 0) :
            op \in {"WithinRadius", "OutsideRadius"},
            lat \in {sLat, sMissing}, lng \in {sLng, sAgeX}, r \in {100, 500}}
    \cup {Leaf("WithinBoundingBox", lat, Box(lng), 0) :
            lat \in {sLat, sMissing}, lng \in {sLng, sAgeX}}
    \cup {Leaf("HasKey", path, VStr(<<"k">>), 0) : path \in {sMeta, sMissing, sAddrCity}}
    \cup {Leaf("HasValue", path, VInt(1), 0) : path \in {sMeta, sMissing}}
    \cup {Leaf(op, path, 1, 0) :
            op \in {"MapSizeEquals", "MapSizeGreaterThan", "MapSizeLessThan"},
            path \in {sMeta, sMissing}}

CombinedFilters ==
    {Combine("Not", <<Leaf("Eq", sAge, VInt8(1), 0)>>),
     Combine("Not", <<Leaf("Eq", sMissing, VInt(0), 0)>>),
     Combine("And", <<Leaf("Gte", sAge, VInt8(0), 0), Leaf("Eq", sActive, VBool(TRUE), 0)>>),
     Combine("Or", <<Leaf("Eq", sAge, VInt8(0), 0), Leaf("Eq", sName, VStr(<<>>), 0)>>),
     Combine("And", <<>>),
     Combine("Or", <<>>)}

FilterSet == LeafFilters \cup CombinedFilters

NoCall == [api |-> "none", input |-> <<>>]

NoRet == Result("none", <<>>, NoError)

Init ==
    /\ items \in SeqsUpTo(FilterPool, MaxItems)
    /\ call = NoCall
    /\ ret = NoRet

\* filter.Apply(items, f)
CallFilterApply ==
    /\ call = NoCall
    /\ \E f \in FilterSet :
          /\ call' = [api |-> "filter.Apply", input |-> f]
          /\ ret' = Result("slice", Apply(items, f), NoError)
    /\ UNCHANGED items

\* The invocation is over; the caller may make another one.
Return ==
    /\ call # NoCall
    /\ call' = NoCall
    /\ ret' = NoRet
    /\ UNCHANGED items

Next == CallFilterApply \/ Return

Spec == Init /\ [][Next]_vars

(***************************************************************************)
(* Specification SpecSort: filter.Sort on slices of users, and Sort again   *)
(* on what it returned                                                     *)
(***************************************************************************)
\* Ties with userA on Age, Active and Score, under another Name.
userD == User(<<"d">>, 1, TRUE, 3, Ptr(Address(<<"x">>)), 2, NoMeta)

SortPool == {userA, userB, userC, userD}

SortFields == {sAge, sName, sScore, sActive, sAddrCity, sMissing}

InitSort ==
    /\ items \in SeqsUpTo(SortPool, MaxItems)
    /\ call = NoCall
    /\ ret = NoRet

\* filter.Sort(items, fieldName, ascending)
CallSort ==
    /\ call = NoCall
    /\ \E fieldName \in SortFields, ascending \in BOOLEAN :
          /\ call' = [api |-> "filter.Sort",
                      input |-> [fieldName |-> fieldName, ascending |-> ascending]]
          /\ ret' = Result("slice", Sort(items, fieldName, ascending), NoError)
    /\ UNCHANGED items

\* The caller sorts what Sort returned once more, by the same field and direction.
CallSortAgain ==
    /\ call.api = "filter.Sort"
    /\ call' = [call EXCEPT !.api = "filter.Sort again"]
    /\ items' = ret.out
    /\ ret' = Result("slice", Sort(ret.out, call.input.fieldName, call.input.ascending),
                     NoError)


(***************************************************************************)
(* Specification SpecQuery: query.Apply and query.ApplyPaginated on slices  *)
(* of users, with query parameters from a pool                             *)
(***************************************************************************)
MaxParams == 2

QueryPool == {userA, userB}

\* url.Values: the filter keys of the pool, each with the value lists it may have.
FilterChoices ==
    <<"a", "g", "e">> :> {<<<<"1">>>>, <<<<"a", "b", "c">>>>, <<>>}
    @@ <<"a", "g", "e", "_", "b", "e", "t", "w", "e", "e", "n">> :> {<<<<"0", ",", "1">>>>}
    @@ <<"a", "g", "e", "_", "i", "n">> :> {<<<<"0", ",", " ", "1">>>>}
    @@ <<"n", "a", "m", "e", "_", "c", "o", "n", "t", "a", "i", "n", "s">> :> {<<<<"a">>>>}
    @@ <<"a", "c", "t", "i", "v", "e">> :> {<<<<"t", "r", "u", "e">>>>}
    @@ <<"a", "c", "t", "i", "v", "e", "_", "b", "e", "t", "w", "e", "e", "n">> :> {<<<<"f", "a", "l", "s", "e", ",", "t", "r", "u", "e">>>>}
    @@ <<"s", "s", "n">> :> {<<<<"7">>>>, <<>>}
    @@ <<"s", "c", "o", "r", "e">> :> {<<<<"1", ".", "5">>>>}

SortChoices ==
    sSort :> {<<<<"a", "g", "e">>>>, <<<<"-", "a", "g", "e">>>>, <<<<"n", "a", "m", "e">>>>,
              <<<<"-", "n", "a", "m", "e">>>>, <<<<"s", "c", "o", "r", "e">>>>, <<<<"-", "s", "c", "o", "r", "e">>>>,
              <<<<"a", "c", "t", "i", "v", "e">>>>, <<<<"s", "s", "n">>>>}

\* The maps over at most n of the keys of choices, each key with one of its lists.
ParamSets(choices, n) ==
    UNION {{params \in [D -> UNION {choices[key] : key \in DOMAIN choices}] :
               \A key \in D : params[key] \in choices[key]} :
           D \in {D \in SUBSET DOMAIN choices : Cardinality(D) <= n}}

\* The orders in which a range over the map may visit its keys.
Orders(params) ==
    {order \in [1..Cardinality(DOMAIN params) -> DOMAIN params] :
        \A key \in DOMAIN params : \E i \in DOMAIN order : order[i] = key}

OptionSets ==
    {defaultOptions, WithMaxLimit(WNat(2), WithDefaultLimit(WNat(2), defaultOptions))}

QueryParams == ParamSets(FilterChoices @@ SortChoices, MaxParams)

\* The page and limit keys of the pool: none, in range, out of range, and
\* values whose product leaves the 64 bits of an int.
PageMaps ==
    {<<>>} \cup {sPage :> <<raw>> :
                   raw \in {<<"1">>, <<"2">>, <<"3">>, <<"0">>,
                            <<"6", "7", "2", "8", "0", "4", "2", "1", "3", "1", "0", "7", "2", "2">>}}

LimitMaps ==
    {<<>>} \cup {sLimit :> <<raw>> :
                   raw \in {<<"1">>, <<"2">>, <<"2", "7", "4", "1", "7", "7">>,
                            <<"9", "2", "2", "3", "3", "7", "2", "0", "3", "6", "8", "5", "4", "7", "7", "5", "8", "0", "7">>}}

BaseMaps ==
    {<<>>, <<"a", "g", "e">> :> <<<<"1">>>>,
     sSort :> <<<<"-", "a", "g", "e">>>>, <<"s", "s", "n">> :> <<<<"7">>>>}

PageParams == {base @@ pg @@ lm : base \in BaseMaps, pg \in PageMaps, lm \in LimitMaps}

\* query.Apply[User](items, params, opts...) with params from paramSets
QueryApplyCall(paramSets) ==
    /\ call = NoCall
    /\ \E params \in paramSets, o \in OptionSets :
          \E order \in Orders(params) :
             /\ call' = [api |-> "query.Apply",
                         input |-> [params |-> params, order |-> order, opts |-> o]]
             /\ ret' = QueryApply(UserType, items, params, order, o)
    /\ UNCHANGED items

\* Sorting through the query layer: the sort key alone.
CallQuerySort == QueryApplyCall(ParamSets(SortChoices, 1))

NextSort == CallSort \/ CallSortAgain \/ CallQuerySort \/ Return

SpecSort == InitSort /\ [][NextSort]_vars

InitQuery ==
    /\ items \in SeqsUpTo(QueryPool, MaxItems)
    /\ call = NoCall
    /\ ret = NoRet

CallQueryApply == QueryApplyCall(QueryParams)

\* query.ApplyPaginated[User](items, params, opts...) with params from paramSets
ApplyPaginatedCall(paramSets) ==
    /\ call = NoCall
    /\ \E params \in paramSets, o \in OptionSets :
          \E order \in Orders(params) :
             /\ call' = [api |-> "query.ApplyPaginated",
                         input |-> [params |-> params, order |-> order, opts |-> o]]
             /\ ret' = ApplyPaginated(UserType, items, params, order, o)
    /\ UNCHANGED items

CallApplyPaginated == ApplyPaginatedCall(PageParams)

NextQuery == CallQueryApply \/ CallApplyPaginated \/ Return

SpecQuery == InitQuery /\ [][NextQuery]_vars

(***************************************************************************)
(* Specification SpecParams: the compilation of query parameters, through   *)
(* splitParamOperator on keys and through query.Apply and                   *)
(* query.ApplyPaginated on maps of filter, sort, page and limit keys        *)
(***************************************************************************)
ParamPool == {userA, userB, userC}

\* Keys for splitParamOperator: a name, then nothing, an operator suffix, or
\* an ending that only resembles one.
KeyNames ==
    {<<>>, <<"a">>, <<"a", "g", "e">>, <<"x", "_", "g", "t">>, <<"c", "r", "e", "a", "t", "e", "d", "_", "a", "t">>, <<"a", "_", "g", "t", "e">>, <<"i", "n">>, <<"_">>}

KeyEndings ==
    {<<>>, <<"_", "b", "e", "t", "w", "e", "e", "n">>, <<"_", "c", "o", "n", "t", "a", "i", "n", "s">>, <<"_", "g", "t", "e">>,
     <<"_", "g", "t">>, <<"_", "l", "t", "e">>, <<"_", "l", "t">>, <<"_", "n", "e">>, <<"_", "i", "n">>,
     <<"_", "e", "q">>, <<"g", "t", "e">>, <<"_", "G", "T">>, <<"_", "g", "t", "_">>, <<"_", "g", "t", "x">>, <<"_">>}

ParamKeys == {name \o ending : name \in KeyNames, ending \in KeyEndings}

\* Filter keys whose values have one, two and three comma-separated parts, for
\* the kinds of the filterable fields, with plain filter keys and a sort key.
CompileChoices ==
    <<"a", "g", "e", "_", "b", "e", "t", "w", "e", "e", "n">> :> {<<<<"0", ",", "1">>>>, <<<<"0">>>>, <<<<"0", ",", "1", ",", "2">>>>}
    @@ <<"n", "a", "m", "e", "_", "b", "e", "t", "w", "e", "e", "n">> :> {<<<<"a", ",", "b">>>>, <<<<"a">>>>, <<<<"a", ",", "b", ",", "c">>>>}
    @@ <<"a", "c", "t", "i", "v", "e", "_", "b", "e", "t", "w", "e", "e", "n">> :> {<<<<"f", "a", "l", "s", "e", ",", "t", "r", "u", "e">>>>, <<<<"t", "r", "u", "e">>>>}
    @@ <<"a", "g", "e">> :> {<<<<"1">>>>, <<<<"a", "b", "c">>>>, <<>>}
    @@ <<"a", "c", "t", "i", "v", "e">> :> {<<<<"t", "r", "u", "e">>>>}
    @@ sSort :> {<<<<"-", "n", "a", "m", "e">>>>, <<<<"s", "s", "n">>>>}

CompileParams == ParamSets(CompileChoices, MaxParams)

\* page and limit keys: absent, without a value, with integers from 1 up, and
\* with texts that are no integer from 1 up.
PageTexts == {<<<<"2">>>>, <<<<"0">>>>, <<<<"a", "b", "c">>>>, <<<<"+", "1">>>>, <<<<"-", "1">>>>, <<>>}

LimitTexts == {<<<<"1">>>>, <<<<"2">>>>, <<<<"3">>>>, <<<<"0">>>>, <<<<"x">>>>, <<>>}

PagingParams ==
    {base @@ pg @@ lm :
        base \in {<<>>, <<"a", "g", "e", "_", "b", "e", "t", "w", "e", "e", "n">> :> <<<<"0", ",", "1">>>>},
        pg \in {<<>>} \cup {sPage :> values : values \in PageTexts},
        lm \in {<<>>} \cup {sLimit :> values : values \in LimitTexts}}

\* Slices of distinct users.
InitParams ==
    /\ items \in {its \in SeqsUpTo(ParamPool, MaxItems) :
                     \A i, j \in DOMAIN its : its[i] = its[j] => i = j}
    /\ call = NoCall
    /\ ret = NoRet

\* splitParamOperator(param)
CallSplitParamOperator ==
    /\ call = NoCall
    /\ \E param \in ParamKeys :
          /\ call' = [api |-> "query.splitParamOperator", input |-> [param |-> param]]
          /\ ret' = Result("split", <<splitParamOperator(param).column,
                                      splitParamOperator(param).operator>>, NoError)
    /\ UNCHANGED items

CallCompile == QueryApplyCall(CompileParams)

CallApplyPaging == QueryApplyCall(PagingParams)

CallPaginatedPaging == ApplyPaginatedCall(PagingParams)

NextParams ==
    CallSplitParamOperator \/ CallCompile \/ CallApplyPaging \/ CallPaginatedPaging \/ Return

SpecParams == InitParams /\ [][NextParams]_vars

(***************************************************************************)
(* Slices in memory: what a call leaves in the backing array of its input  *)
(***************************************************************************)
\* Memory is the sequence of the backing arrays allocated so far; a slice is a
\* window [low, high) of one of them.
SliceOf(array, low, high) == [array |-> array, low |-> low, high |-> high]

Elements(mem, s) == SubSeq(mem[s.array], s.low + 1, s.high)

\* make and the appends or the copy that fill it: a new array holding elems.
Allocated(mem, elems) ==
    [mem |-> Append(mem, elems), s |-> SliceOf(Len(mem) + 1, 0, Len(elems))]

\* The memory after the elements of the slice s were overwritten with elems.
Written(mem, s, elems) ==
    [mem EXCEPT ![s.array] = SubSeq(@, 1, s.low) \o elems \o SubSeq(@, s.high + 1, Len(@))]

\* filter.Apply: result := make([]T, 0), then result = append(result, item).
filterApplyIn(mem, s, f) == Allocated(mem, Apply(Elements(mem, s), f))

\* sort.Slice(result, less): the swaps go to the array of result.
sortSliceIn(mem, s, fieldName, ascending) ==
    [mem |-> Written(mem, s, sortSlice(Elements(mem, s), fieldName, ascending)), s |-> s]

\* A variant of filter.Sort that sorts the slice it was given, without the copy.
SortInPlace(mem, s, fieldName, ascending) == sortSliceIn(mem, s, fieldName, ascending)

\* filter.Sort: result := make([]T, len(items)); copy(result, items);
\* sort.Slice(result, ...).
SortIn(mem, s, fieldName, ascending) ==
    sortSliceIn(Allocated(mem, Elements(mem, s)).mem, Allocated(mem, Elements(mem, s)).s,
                fieldName, ascending)

\* The loop of SortByDistance over items: the items whose coordinates resolve
\* to numbers, each with its distance from centerPoint.
RECURSIVE itemsWithDistance(_, _, _, _)
itemsWithDistance(its, latField, lngField, centerPoint) ==
    IF its = <<>> THEN <<>>
    ELSE LET latValue == getFieldValue(Head(its), latField)
             lngValue == getFieldValue(Head(its), lngField)
             rest     == itemsWithDistance(Tail(its), latField, lngField, centerPoint)
         IN  IF latValue.err THEN rest
             ELSE IF lngValue.err THEN rest
             ELSE IF ~Coordinate(latValue.val).ok THEN rest
             ELSE IF ~Coordinate(lngValue.val).ok THEN rest
             ELSE <<[item |-> Head(its),
                     distance |-> calculateDistance(centerPoint,
                                      [Lat |-> Coordinate(latValue.val).h,
                                       Lng |-> Coordinate(lngValue.val).h])]>> \o rest

\* sort.Slice on itemsWithDistance, by distance: insertion sort as in sortSlice.
RECURSIVE InsertCloser(_, _)
InsertCloser(data, j) ==
    IF j > 1 /\ data[j].distance < data[j - 1].distance
    THEN InsertCloser(Swap(data, j, j - 1), j - 1)
    ELSE data

RECURSIVE sortByDistance(_, _)
sortByDistance(data, i) ==
    IF i > Len(data) THEN data ELSE sortByDistance(InsertCloser(data, i), i + 1)

\* filter.SortByDistance: the items of the sorted pairs, in a new slice.
SortByDistance(its, latField, lngField, centerPoint) ==
    LET sorted == sortByDistance(itemsWithDistance(its, latField, lngField, centerPoint), 2)
    IN  [i \in 1..Len(sorted) |-> sorted[i].item]

\* SortByDistance in memory: the pairs and the result are new arrays.
SortByDistanceIn(mem, s, latField, lngField, centerPoint) ==
    Allocated(mem, SortByDistance(Elements(mem, s), latField, lngField, centerPoint))

\* The filter step of query.Apply and query.ApplyPaginated: result := items,
\* replaced by what filter.Apply returns when there are filters.
FilteredIn(mem, s, parsed) ==
    IF Len(parsed.filters) > 0
    THEN filterApplyIn(mem, s, Combine("And", [i \in 1..Len(parsed.filters) |->
                                                  buildFilter(parsed.filters[i])]))
    ELSE [mem |-> mem, s |-> s]

\* Their sort step, on the result r of the filter step.
SortedIn(r, parsed, o) ==
    IF parsed.sortField = <<>> /\ o.defaultSort # <<>>
    THEN SortIn(r.mem, r.s, o.defaultSort, o.defaultSortAsc)
    ELSE IF parsed.sortField # <<>>
    THEN SortIn(r.mem, r.s, parsed.sortField, parsed.sortAsc)
    ELSE r

\* query.Apply and query.ApplyPaginated in memory after parseParams: nothing
\* is touched when it failed; result[start:end] is a window of the array of
\* result and writes nothing.
QueryIn(mem, s, parsed, o) ==
    IF parsed.err # NoError THEN [mem |-> mem, s |-> s]
    ELSE SortedIn(FilteredIn(mem, s, parsed.q), parsed.q, o)

(***************************************************************************)
(* Specification SpecFrame: calls of filter.Apply, filter.Sort,            *)
(* filter.SortByDistance, query.Apply and query.ApplyPaginated one after   *)
(* another on the caller's slice, items being what its backing array holds *)
(***************************************************************************)
\* The caller's memory: its slice is the whole of the one array.
CallerMemory == <<items>>

CallerSlice == SliceOf(1, 0, Len(items))

FrameFilters == CombinedFilters

FrameCenters == {Origin, [Lat |-> 4, Lng |-> 0]}

FrameParams ==
    {<<>>,
     <<"a", "g", "e">> :> <<<<"1">>>>,
     <<"a", "g", "e">> :> <<<<"a", "b", "c">>>>,
     sSort :> <<<<"-", "a", "g", "e">>>>,
     sSort :> <<<<"n", "a", "m", "e">>>>,
     <<"a", "g", "e", "_", "b", "e", "t", "w", "e", "e", "n">> :> <<<<"0", ",", "1">>>> @@ sSort :> <<<<"-", "a", "g", "e">>>>,
     sSort :> <<<<"-", "a", "g", "e">>>> @@ sPage :> <<<<"2">>>> @@ sLimit :> <<<<"1">>>>,
     sPage :> <<<<"1">>>> @@ sLimit :> <<<<"2">>>>}

FrameOptions == OptionSets \cup {WithDefaultSort(sAge, FALSE, defaultOptions)}

InitFrame ==
    /\ items \in SeqsUpTo(SortPool, MaxItems)
    /\ call = NoCall
    /\ ret = NoRet

\* filter.Apply(items, f)
FrameFilterApply ==
    /\ call = NoCall
    /\ \E f \in FrameFilters :
          /\ call' = [api |-> "filter.Apply", input |-> f]
          /\ ret' = Result("slice", Elements(filterApplyIn(CallerMemory, CallerSlice, f).mem,
                                             filterApplyIn(CallerMemory, CallerSlice, f).s),
                           NoError)
          /\ items' = Elements(filterApplyIn(CallerMemory, CallerSlice, f).mem, CallerSlice)

\* filter.Sort(items, fieldName, ascending)
FrameSort ==
    /\ call = NoCall
    /\ \E fieldName \in SortFields, ascending \in BOOLEAN :
          /\ call' = [api |-> "filter.Sort",
                      input |-> [fieldName |-> fieldName, ascending |-> ascending]]
          /\ ret' = Result("slice",
                           Elements(SortIn(CallerMemory, CallerSlice, fieldName, ascending).mem,
                                    SortIn(CallerMemory, CallerSlice, fieldName, ascending).s),
                           NoError)
          /\ items' = Elements(SortIn(CallerMemory, CallerSlice, fieldName, ascending).mem,
                               CallerSlice)

\* filter.SortByDistance(items, latField, "Lng", centerPoint)
FrameSortByDistance ==
    /\ call = NoCall
    /\ \E latField \in {sLat, sMissing}, centerPoint \in FrameCenters :
          /\ call' = [api |-> "filter.SortByDistance",
                      input |-> [latField |-> latField, centerPoint |-> centerPoint]]
          /\ ret' = Result("slice",
                           Elements(SortByDistanceIn(CallerMemory, CallerSlice, latField, sLng,
                                                     centerPoint).mem,
                                    SortByDistanceIn(CallerMemory, CallerSlice, latField, sLng,
                                                     centerPoint).s),
                           NoError)
          /\ items' = Elements(SortByDistanceIn(CallerMemory, CallerSlice, latField, sLng,
                                                centerPoint).mem, CallerSlice)

\* query.Apply[User](items, params, opts...)
FrameQueryApply ==
    /\ call = NoCall
    /\ \E params \in FrameParams, o \in FrameOptions :
          \E order \in Orders(params) :
             /\ call' = [api |-> "query.Apply",
                         input |-> [params |-> params, order |-> order, opts |-> o]]
             /\ ret' = QueryApply(UserType, items, params, order, o)
             /\ items' = Elements(QueryIn(CallerMemory, CallerSlice,
                                          parseParams(UserType, params, order, o), o).mem,
                                  CallerSlice)

\* query.ApplyPaginated[User](items, params, opts...)
FrameApplyPaginated ==
    /\ call = NoCall
    /\ \E params \in FrameParams, o \in FrameOptions :
          \E order \in Orders(params) :
             /\ call' = [api |-> "query.ApplyPaginated",
                         input |-> [params |-> params, order |-> order, opts |-> o]]
             /\ ret' = ApplyPaginated(UserType, items, params, order, o)
             /\ items' = Elements(QueryIn(CallerMemory, CallerSlice,
                                          parseParams(UserType, params, order, o), o).mem,
                                  CallerSlice)

NextFrame ==
    \/ FrameFilterApply
    \/ FrameSort
    \/ FrameSortByDistance
    \/ FrameQueryApply
    \/ FrameApplyPaginated
    \/ Return

SpecFrame == InitFrame /\ [][NextFrame]_vars

(***************************************************************************)
(* Specification SpecBooking: the date filters through filter.Apply, and   *)
(* query.Apply with one key, on slices of bookings                         *)
(***************************************************************************)
Start == timeParse(RFC3339, <<"2", "0", "2", "4", "-", "0", "1", "-", "0", "2", "T", "0", "0", ":", "0", "0", ":", "0", "1", "Z">>).t

End == TimeAdd(Start, Second)

\* Half a second before Start, at Start, at End, half a second after End and
\* a second after End.
bookEarly == Booking(TimeAdd(Start, -1), 1, <<"2", "0", "2", "4", "-", "0", "1", "-", "0", "2">>, <<"2", "0", "2", "4", "-", "0", "1", "-", "0", "3">>, 1)

bookStart == Booking(Start, 0, <<"0", "1", "/", "0", "2", "/", "2", "0", "2", "4">>, <<"2", "0", "2", "4", "-", "0", "1", "-", "0", "2">>, 2)

bookEnd == Booking(End, 1, <<"x">>, <<"2", "0", "2", "4", "-", "0", "1", "-", "0", "2">>, 1)

bookLate == Booking(TimeAdd(End, 1), 0, <<"0", "0", "0", "1", "-", "0", "1", "-", "0", "1">>, <<"2", "0", "2", "4", "-", "0", "1", "-", "0", "3">>, 2)

bookAfter == Booking(TimeAdd(End, Second), 1, <<"2", "0", "2", "4", "-", "0", "1", "-", "0", "3">>, <<"2", "0", "2", "4", "-", "0", "1", "-", "0", "2">>, 1)

BookingPool == {bookEarly, bookStart, bookEnd, bookLate, bookAfter}

DatePaths == {sAt, sDay, sLimitField, sMissing}

DateFilters ==
    {Leaf(op, path, date, 0) :
        op \in {"DateBefore", "DateAfter"}, path \in DatePaths, date \in {Start, End}}
    \cup {Leaf("DateBetween", path, Start, End) : path \in DatePaths}
    \cup {Leaf("DateBetween", sAt, Start, Start)}

sStartText == <<"2", "0", "2", "4", "-", "0", "1", "-", "0", "2", "T", "0", "0", ":", "0", "0", ":", "0", "1", "Z">>

BookingChoices ==
    <<"a", "t">> :> {<<sStartText>>, <<<<"2", "0", "2", "4", "-", "0", "1", "-", "0", "2">>>>, <<<<"x">>>>}
    @@ <<"a", "t", "_", "n", "e">> :> {<<sStartText>>}
    @@ <<"a", "t", "_", "g", "t">> :> {<<sStartText>>}
    @@ <<"a", "t", "_", "g", "t", "e">> :> {<<sStartText>>}
    @@ <<"a", "t", "_", "l", "t">> :> {<<<<"2", "0", "2", "4", "-", "0", "1", "-", "0", "2", "T", "0", "0", ":", "0", "0", ":", "0", "2", "Z">>>>}
    @@ <<"a", "t", "_", "l", "t", "e">> :> {<<<<"2", "0", "2", "4", "-", "0", "1", "-", "0", "2", "T", "0", "0", ":", "0", "0", ":", "0", "2", "Z">>>>}
    @@ <<"a", "t", "_", "b", "e", "t", "w", "e", "e", "n">> :> {<<<<"2", "0", "2", "4", "-", "0", "1", "-", "0", "2", "T", "0", "0", ":", "0", "0", ":", "0", "1", "Z", ",", "2", "0", "2", "4", "-", "0", "1", "-", "0", "2", "T", "0", "0", ":", "0", "0", ":", "0", "2", "Z">>>>}
    @@ <<"a", "t", "_", "i", "n">> :> {<<<<"2", "0", "2", "4", "-", "0", "1", "-", "0", "2", "T", "0", "0", ":", "0", "0", ":", "0", "1", "Z", ",", "2", "0", "2", "4", "-", "0", "1", "-", "0", "2", "T", "0", "0", ":", "0", "0", ":", "0", "2", "Z">>>>}
    @@ <<"c", "h", "e", "c", "k", "_", "i", "n">> :> {<<<<"1">>>>, <<<<"0", ",", "1">>>>}
    @@ <<"d", "a", "y">> :> {<<<<"2", "0", "2", "4", "-", "0", "1", "-", "0", "2">>>>}
    @@ <<"l", "i", "m", "i", "t">> :> {<<<<"1">>>>}
    @@ sSort :> {<<<<"a", "t">>>>, <<<<"-", "a", "t">>>>}

BookingParams == ParamSets(BookingChoices, 1)

InitBooking ==
    /\ items \in SeqsUpTo(BookingPool, MaxItems)
    /\ call = NoCall
    /\ ret = NoRet

\* filter.Apply(items, f), f a date filter
CallDateFilter ==
    /\ call = NoCall
    /\ \E f \in DateFilters :
          /\ call' = [api |-> "filter.Apply", input |-> f]
          /\ ret' = Result("slice", Apply(items, f), NoError)
    /\ UNCHANGED items

\* query.Apply[Booking](items, params)
CallBookingQuery ==
    /\ call = NoCall
    /\ \E params \in BookingParams :
          \E order \in Orders(params) :
             /\ call' = [api |-> "query.Apply",
                         input |-> [params |-> params, order |-> order,
                                    opts |-> defaultOptions]]
             /\ ret' = QueryApply(BookingType, items, params, order, defaultOptions)
    /\ UNCHANGED items

NextBooking == CallDateFilter \/ CallBookingQuery \/ Return

SpecBooking == InitBooking /\ [][NextBooking]_vars

(***************************************************************************)
(* Specification SpecConcurrent: invocations of filter.Apply, query.Apply  *)
(* and query.ApplyPaginated that run at the same time on one slice and one *)
(* parameter map, each advancing by steps that interleave                  *)
(***************************************************************************)
MaxProcs == 2

\* What parseParams has not yet returned.
NotParsed ==
    Continue([filters |-> <<>>, sortField |-> <<>>, sortAsc |-> FALSE,
              page |-> WZero, limit |-> WZero])

\* An invocation: its arguments, the statement it is at, and its locals.
\* result is the slice header the invocation holds: own tells a slice it
\* allocated (data is what it holds) from the caller's slice.
Invocation(api, f, params, order, opts) ==
    [api |-> api, f |-> f, params |-> params, order |-> order, opts |-> opts,
     pc |-> "start", parsed |-> NotParsed, own |-> FALSE, data |-> <<>>,
     out |-> NoRet]

\* What the invocation's result slice holds, shared being what the caller's
\* backing array holds now.
Held(inv, shared) == IF inv.own THEN inv.data ELSE shared

\* parsed, err := parseParams[T](params, o); the registry is built by this
\* call and held by no one else.
HasParsed(inv, parsed) ==
    IF parsed.err # NoError
    THEN [inv EXCEPT !.parsed = parsed, !.pc = "done",
                     !.out = Result("nil", <<>>, parsed.err)]
    ELSE [inv EXCEPT !.parsed = parsed, !.pc = "filter"]

ParseStep(inv) ==
    HasParsed(inv, parseParams(UserType, inv.params, inv.order, inv.opts))

\* filter.Apply(items, f): reads the caller's slice, appends to a new one.
Appended(inv, result) ==
    [inv EXCEPT !.own = TRUE, !.data = result, !.pc = "done",
                !.out = Result("slice", result, NoError)]

FilterApplyStep(inv, shared) == Appended(inv, Apply(shared, inv.f))

\* result := items; if len(parsed.filters) > 0 { result = filter.Apply(...) }
FilterStep(inv, shared) ==
    IF Len(inv.parsed.q.filters) > 0
    THEN [inv EXCEPT !.own = TRUE, !.data = Filtered(shared, inv.parsed.q), !.pc = "sort"]
    ELSE [inv EXCEPT !.pc = "sort"]

Sorts(inv) == inv.parsed.q.sortField # <<>> \/ inv.opts.defaultSort # <<>>

\* A variant of the sort step that sorts the slice it was handed where it is.
SortStepInPlace(inv, shared) ==
    IF Sorts(inv) /\ ~inv.own
    THEN [shared |-> Sorted(shared, inv.parsed.q, inv.opts),
          inv |-> [inv EXCEPT !.pc = "finish"]]
    ELSE [shared |-> shared,
          inv |-> IF Sorts(inv)
                  THEN [inv EXCEPT !.data = Sorted(inv.data, inv.parsed.q, inv.opts),
                                   !.pc = "finish"]
                  ELSE [inv EXCEPT !.pc = "finish"]]

\* if sortField != "" { result = filter.Sort(result, sortField, sortAsc) }:
\* Sort copies the slice and sorts the copy. The step yields what the
\* caller's backing array and the invocation hold after it.
SortStep(inv, shared) ==
    [shared |-> shared,
     inv |-> IF Sorts(inv)
             THEN [inv EXCEPT !.own = TRUE,
                              !.data = Sorted(Held(inv, shared), inv.parsed.q, inv.opts),
                              !.pc = "finish"]
             ELSE [inv EXCEPT !.pc = "finish"]]

\* return result, nil / return &PageResult{Items: result[start:end], ...}
FinishStep(inv, shared) ==
    [inv EXCEPT !.pc = "done",
                !.out = IF inv.api = "query.Apply"
                        THEN Result("slice", Held(inv, shared), NoError)
                        ELSE PageOf(Held(inv, shared), inv.parsed.q.page,
                                    IF ~WLess(WZero, inv.parsed.q.limit)
                                    THEN inv.opts.defaultLimit ELSE inv.parsed.q.limit)]

ConcurrentPool == {userA, userC}

ConcurrentFilters == {Leaf("Gte", sAge, VInt8(0), 0)}

\* The invocations of the pool: a filter, a sort of the caller's slice, a
\* compilation that fails, and a page of a filtered and sorted result.
Invocations ==
    {Invocation("filter.Apply", f, <<>>, <<>>, defaultOptions) : f \in ConcurrentFilters}
    \cup {Invocation("query.Apply", Combine("And", <<>>), sSort :> <<<<"-", "a", "g", "e">>>>,
                     <<sSort>>, defaultOptions),
          Invocation("query.Apply", Combine("And", <<>>), <<"a", "g", "e">> :> <<<<"a", "b", "c">>>>,
                     <<<<"a", "g", "e">>>>, defaultOptions),
          Invocation("query.ApplyPaginated", Combine("And", <<>>),
                     <<"a", "g", "e", "_", "g", "t", "e">> :> <<<<"0">>>> @@ sSort :> <<<<"n", "a", "m", "e">>>>,
                     <<<<"a", "g", "e", "_", "g", "t", "e">>, sSort>>, WithDefaultLimit(WNat(1), defaultOptions))}

InitConcurrent ==
    /\ items \in SeqsUpTo(ConcurrentPool, MaxItems)
    /\ call = NoCall
    /\ ret = NoRet

\* The results the invocations have returned so far.
Outs(invs) == [p \in DOMAIN invs |-> invs[p].out]

Running(invs, shared) ==
    [api |-> "concurrent", input |-> [shared |-> shared, invs |-> invs]]

\* A goroutine makes the first call on the caller's slice.
InvokeFirst ==
    /\ call = NoCall
    /\ \E inv \in Invocations :
          /\ call' = Running(<<inv>>, items)
          /\ ret' = Outs(<<inv>>)
    /\ UNCHANGED items

\* Another goroutine makes a call on the same slice while earlier calls run.
InvokeNext ==
    /\ call.api = "concurrent"
    /\ Len(call.input.invs) < MaxProcs
    /\ \E inv \in Invocations :
          /\ call' = Running(Append(call.input.invs, inv), call.input.shared)
          /\ ret' = Outs(Append(call.input.invs, inv))
    /\ UNCHANGED items

\* The invocation p takes its next step, which leaves after in the caller's
\* backing array and inv in the invocation.
Stepped(p, after, inv) ==
    /\ items' = after
    /\ call' = Running([call.input.invs EXCEPT ![p] = inv], call.input.shared)
    /\ ret' = Outs([call.input.invs EXCEPT ![p] = inv])

SteppedTo(p, after) == Stepped(p, after.shared, after.inv)

StepParse ==
    /\ call.api = "concurrent"
    /\ \E p \in DOMAIN call.input.invs :
          /\ call.input.invs[p].pc = "start"
          /\ call.input.invs[p].api # "filter.Apply"
          /\ Stepped(p, items, ParseStep(call.input.invs[p]))

StepFilterApply ==
    /\ call.api = "concurrent"
    /\ \E p \in DOMAIN call.input.invs :
          /\ call.input.invs[p].pc = "start"
          /\ call.input.invs[p].api = "filter.Apply"
          /\ Stepped(p, items, FilterApplyStep(call.input.invs[p], items))

StepFilter ==
    /\ call.api = "concurrent"
    /\ \E p \in DOMAIN call.input.invs :
          /\ call.input.invs[p].pc = "filter"
          /\ Stepped(p, items, FilterStep(call.input.invs[p], items))

StepSort ==
    /\ call.api = "concurrent"
    /\ \E p \in DOMAIN call.input.invs :
          /\ call.input.invs[p].pc = "sort"
          /\ SteppedTo(p, SortStep(call.input.invs[p], items))

StepFinish ==
    /\ call.api = "concurrent"
    /\ \E p \in DOMAIN call.input.invs :
          /\ call.input.invs[p].pc = "finish"
          /\ Stepped(p, items, FinishStep(call.input.invs[p], items))

\* Every call has returned; the caller may start over.
ReturnAll ==
    /\ call.api = "concurrent"
    /\ \A p \in DOMAIN call.input.invs : call.input.invs[p].pc = "done"
    /\ call' = NoCall
    /\ ret' = NoRet
    /\ UNCHANGED items

NextConcurrent ==
    \/ InvokeFirst \/ InvokeNext \/ StepParse \/ StepFilterApply \/ StepFilter
    \/ StepSort \/ StepFinish \/ ReturnAll

SpecConcurrent == InitConcurrent /\ [][NextConcurrent]_vars

(***************************************************************************)
(* Specification SpecOptions: query.Apply and query.ApplyPaginated under   *)
(* the options WithDefaultLimit, WithMaxLimit and WithDefaultSort          *)
(***************************************************************************)
OptionsPool == {userA, userB, userC}

\* -1 as an int.
WMinusOne == WSub(WZero, WNat(1))

\* A default page size of zero, a negative one, one above the maximum, the
\* built-in default under a maximum, and default sorts by a sortable field
\* and by a field without a tag.
ConfiguredOptions ==
    {defaultOptions,
     WithDefaultLimit(WZero, defaultOptions),
     WithDefaultLimit(WMinusOne, defaultOptions),
     WithMaxLimit(WNat(1), WithDefaultLimit(WNat(2), defaultOptions)),
     WithMaxLimit(WNat(2), defaultOptions),
     WithDefaultSort(sAge, FALSE, defaultOptions),
     WithDefaultSort(sLat, TRUE, defaultOptions)}

ConfiguredParams ==
    {<<>>,
     sPage :> <<<<"2">>>>,
     sLimit :> <<<<"1">>>>,
     sLimit :> <<<<"3">>>>,
     sPage :> <<<<"2">>>> @@ sLimit :> <<<<"1">>>>,
     sPage :> <<<<"2">>>> @@ sLimit :> <<<<"9", "2", "2", "3", "3", "7", "2", "0", "3", "6", "8", "5", "4", "7", "7", "5", "8", "0", "7">>>>,
     sSort :> <<<<"n", "a", "m", "e">>>>,
     <<"a", "g", "e", "_", "g", "t", "e">> :> <<<<"0">>>>}

InitOptions ==
    /\ items \in SeqsUpTo(OptionsPool, MaxItems)
    /\ call = NoCall
    /\ ret = NoRet

\* query.Apply[User](items, params, opts...)
CallConfiguredApply ==
    /\ call = NoCall
    /\ \E params \in ConfiguredParams, o \in ConfiguredOptions :
          \E order \in Orders(params) :
             /\ call' = [api |-> "query.Apply",
                         input |-> [params |-> params, order |-> order, opts |-> o]]
             /\ ret' = QueryApply(UserType, items, params, order, o)
    /\ UNCHANGED items

\* query.ApplyPaginated[User](items, params, opts...)
CallConfiguredPaginated ==
    /\ call = NoCall
    /\ \E params \in ConfiguredParams, o \in ConfiguredOptions :
          \E order \in Orders(params) :
             /\ call' = [api |-> "query.ApplyPaginated",
                         input |-> [params |-> params, order |-> order, opts |-> o]]
             /\ ret' = ApplyPaginated(UserType, items, params, order, o)
    /\ UNCHANGED items

NextOptions == CallConfiguredApply \/ CallConfiguredPaginated \/ Return

SpecOptions == InitOptions /\ [][NextOptions]_vars

(***************************************************************************)
(* Properties                                                              *)
(***************************************************************************)
Range(seq) == {seq[i] : i \in DOMAIN seq}

Min(m, n) == IF m <= n THEN m ELSE n

\* The order of the spec on two values of one kind: strings by bytes, numbers
\* by value, booleans as 0 and 1.
MathLeq(a, b) ==
    CASE a.k = "string" -> a.pv = b.pv \/ StrLess(a.pv, b.pv)
      [] a.k = "bool" -> ~a.pv \/ b.pv
      [] a.k \in NumericKinds -> a.pv <= b.pv

CombinatorOps == {"And", "Or", "Not", "False"}

\* The field paths a leaf filter reads.
LeafPaths(f) ==
    IF f.op \in {"WithinRadius", "OutsideRadius", "WithinBoundingBox"}
    THEN {f.path, f.arg.lngField}
    ELSE {f.path}

Unresolved(item, f) == \E path \in LeafPaths(f) : getFieldValue(item, path).err

\* C1: a leaf operator, the negated forms included, is false on every record
\* on which its field path cannot be resolved, so that filter.Apply leaves the
\* record out of its result.
C1_FailClosed ==
    (call.api = "filter.Apply" /\ call.input.op \notin CombinatorOps) =>
        \A i \in DOMAIN items :
            Unresolved(items[i], call.input) => items[i] \notin Range(ret.out)

\* C2: filter.Apply returns the subsequence of the items that satisfy the
\* filter: there is a strictly increasing map from the positions of the result
\* to the positions of the input that hits exactly the positions that pass.
C2_StableFilter ==
    call.api = "filter.Apply" =>
        \E g \in [DOMAIN ret.out -> DOMAIN items] :
            /\ \A a, b \in DOMAIN ret.out : a < b => g[a] < g[b]
            /\ \A a \in DOMAIN ret.out : ret.out[a] = items[g[a]]
            /\ \A i \in DOMAIN items :
                   Passes(call.input, items[i]) <=> \E a \in DOMAIN ret.out : g[a] = i

\* Three items of which the middle one is dropped and the other two, distinct,
\* are kept.
C2_Witness ==
    /\ call.api = "filter.Apply"
    /\ Len(items) = 3
    /\ Len(ret.out) = 2
    /\ ~Passes(call.input, items[2])
    /\ ret.out[1] # ret.out[2]

\* C10: Between(f, min, max) keeps a record exactly when min <= value(f) <= max
\* in the order of the field's kind, booleans included, which is also when
\* Gte(f, min) and Lte(f, max) both hold; operands are of the field's kind.
C10_BetweenInclusive ==
    (call.api = "filter.Apply" /\ call.input.op = "Between") =>
        \A i \in DOMAIN items :
            LET f  == call.input
                fv == getFieldValue(items[i], f.path)
            IN  (~fv.err /\ fv.val.k = f.arg.k /\ fv.val.k = f.arg2.k
                 /\ fv.val.k \in NumericKinds \cup {"string", "bool"}) =>
                    /\ items[i] \in Range(ret.out)
                         <=> (MathLeq(f.arg, fv.val) /\ MathLeq(fv.val, f.arg2))
                    /\ items[i] \in Range(ret.out)
                         <=> (Gte(f.path, f.arg, items[i]) /\ Lte(f.path, f.arg2, items[i]))

KeyOf(item, fieldName) == getFieldValue(item, fieldName)

\* The items of its whose key is the key of item, in their order in its.
Tied(its, item, fieldName) ==
    LET SameKey(other) ==
            /\ ~KeyOf(other, fieldName).err
            /\ KeyOf(other, fieldName).val = KeyOf(item, fieldName).val
    IN  SelectSeq(its, SameKey)

\* C6: filter.Sort keeps the records with equal keys in their original
\* relative order, in both directions.
C6_StableSort ==
    call.api = "filter.Sort" =>
        \A i \in DOMAIN items :
            ~KeyOf(items[i], call.input.fieldName).err =>
                Tied(ret.out, items[i], call.input.fieldName)
                    = Tied(items, items[i], call.input.fieldName)

\* The field resolves on every item to values the comparator can order.
Comparable(its, fieldName) ==
    \A i, j \in DOMAIN its :
        /\ ~KeyOf(its[i], fieldName).err
        /\ ~KeyOf(its[j], fieldName).err
        /\ ~compareValuesLess(KeyOf(its[i], fieldName).val, KeyOf(its[j], fieldName).val).err

Occurrences(its, item) == Cardinality({i \in DOMAIN its : its[i] = item})

Permutation(out, its) ==
    /\ Len(out) = Len(its)
    /\ \A item \in Range(its) \cup Range(out) :
           Occurrences(out, item) = Occurrences(its, item)

OrderedBy(out, fieldName, ascending) ==
    \A a \in 1..(Len(out) - 1) :
        IF ascending
        THEN MathLeq(KeyOf(out[a], fieldName).val, KeyOf(out[a + 1], fieldName).val)
        ELSE MathLeq(KeyOf(out[a + 1], fieldName).val, KeyOf(out[a], fieldName).val)

\* The struct field of User whose external key is key, from the tags.
FieldOfKey(key) ==
    LET i == CHOOSE i \in DOMAIN UserType :
                 UserType[i].tag # <<>> /\ TagInfo(UserType[i]).column = key
    IN  UserType[i].name

\* C7: on a slice whose field resolves everywhere to values the comparator
\* orders, filter.Sort returns a permutation of the items with keys
\* non-decreasing when ascending and non-increasing when descending; through
\* query.Apply, sort=<key> is the ascending and sort=-<key> the descending order.
C7_SortOrders ==
    /\ (call.api \in {"filter.Sort", "filter.Sort again"}
        /\ Comparable(items, call.input.fieldName)) =>
           /\ Permutation(ret.out, items)
           /\ OrderedBy(ret.out, call.input.fieldName, call.input.ascending)
    /\ (call.api = "query.Apply" /\ DOMAIN call.input.params = {sSort}
        /\ ret.res = "slice") =>
           LET raw   == call.input.params[sSort][1]
               desc  == HasPrefix(raw, sMinus)
               field == FieldOfKey(IF desc THEN Tail(raw) ELSE raw)
           IN  Comparable(items, field) =>
                   /\ Permutation(ret.out, items)
                   /\ OrderedBy(ret.out, field, ~desc)

\* A descending sort through the query layer of three users that were not in
\* descending order of Age.
C7_Witness ==
    /\ call.api = "query.Apply"
    /\ DOMAIN call.input.params = {sSort}
    /\ call.input.params[sSort] = <<<<"-", "a", "g", "e">>>>
    /\ ret.res = "slice"
    /\ Len(items) = 3
    /\ ret.out # items
    /\ KeyOf(ret.out[1], sAge).val # KeyOf(ret.out[3], sAge).val

\* C8: sorting what Sort returned, by the same field and direction, returns
\* the same sequence.
C8_SortIdempotent == call.api = "filter.Sort again" => ret.out = items


\* The struct fields of t that carry a gofilter tag.
Tagged(t) == {i \in DOMAIN t : t[i].tag # <<>>}

\* The external keys of the fields annotated filterable, and of those
\* annotated sortable, read off the tags.
FilterableKeys(t) == {TagInfo(t[i]).column : i \in {j \in Tagged(t) : TagInfo(t[j]).filterable}}

SortableKeys(t) == {TagInfo(t[i]).column : i \in {j \in Tagged(t) : TagInfo(t[j]).sortable}}

\* The names the non-reserved keys of params resolve to that are not exposed.
UnexposedNames(params) ==
    {splitParamOperator(key).column : key \in DOMAIN params \ reservedParams}
        \ FilterableKeys(UserType)

\* C3: when a non-reserved key of the query resolves to a name that is not a
\* filterable entry of the registry, query.Apply and query.ApplyPaginated
\* return no records and an ErrFieldNotFilterable naming it, whatever the
\* other keys are.
C3_UnexposedRejected ==
    (call.api \in {"query.Apply", "query.ApplyPaginated"}
     /\ UnexposedNames(call.input.params) # {}) =>
        /\ ret.res = "nil"
        /\ ret.err.etype = "ErrFieldNotFilterable"
        /\ ret.err.Field \in UnexposedNames(call.input.params)

\* C9: sort=<key> and sort=-<key> are accepted exactly when <key> is the
\* external key of a field annotated sortable, with or without filterable,
\* and rejected with ErrFieldNotSortable otherwise.
C9_SortAcceptance ==
    (call.api = "query.Apply" /\ DOMAIN call.input.params = {sSort}) =>
        LET raw == call.input.params[sSort][1]
            key == IF HasPrefix(raw, sMinus) THEN Tail(raw) ELSE raw
        IN  IF key \in SortableKeys(UserType)
            THEN ret.res = "slice"
            ELSE ret.res = "nil" /\ ret.err.etype = "ErrFieldNotSortable"

\* What the invocation in call parsed from its parameters.
Parsed == parseParams(UserType, call.input.params, call.input.order, call.input.opts)

\* The filtered and sorted sequence the invocation in call pages over.
Matching == FilterAndSort(items, Parsed.q, call.input.opts)

\* min(n, (page - 1) * limit) in the integers, for page >= 1 and limit >= 1.
Skipped(page, limit, n) ==
    LET before == WSub(page, WNat(1))
    IN  IF before = WZero THEN 0
        ELSE IF WLess(WNat(n), before) \/ WLess(WNat(n), limit) THEN n
        ELSE Min(n, WValue(before) * WValue(limit))

\* min(limit, rest) in the integers.
Taken(limit, rest) == IF WLess(WNat(rest), limit) THEN rest ELSE WValue(limit)

\* C4: for a page P >= 1 and a page size L >= 1 over N matching records,
\* ApplyPaginated returns min(L, max(0, N - (P-1)*L)) items and
\* HasNext = ((P-1)*L + len(Items) < N).
C4_PageArithmetic ==
    (call.api = "query.ApplyPaginated" /\ Parsed.err = NoError) =>
        LET n    == Len(Matching)
            skip == Skipped(Parsed.q.page, Parsed.q.limit, n)
            take == Taken(Parsed.q.limit, n - skip)
        IN  /\ ret.res = "page"
            /\ Len(ret.out) = take
            /\ ret.HasNext = (skip + take < n)

\* C5: the items of a page are the segment [min((P-1)*L, N), min(P*L, N)) of
\* the filtered and sorted sequence, and Total is N.
C5_PageContents ==
    (call.api = "query.ApplyPaginated" /\ Parsed.err = NoError) =>
        LET n    == Len(Matching)
            skip == Skipped(Parsed.q.page, Parsed.q.limit, n)
            take == Taken(Parsed.q.limit, n - skip)
        IN  /\ ret.res = "page"
            /\ ret.out = SubSeq(Matching, skip + 1, skip + take)
            /\ ret.Total = n

\* The records of its that are not among the records of kept.
Complement(its, kept) ==
    LET Dropped(item) == item \notin Range(kept)
    IN  SelectSeq(its, Dropped)

\* C17: filter.Apply(C, Not(P)) is the subsequence of C of the records that
\* are not in filter.Apply(C, P): the two results are disjoint and every
\* record of C is in one of them.
C17_NotComplement ==
    call.api = "filter.Apply" =>
        /\ Apply(items, Combine("Not", <<call.input>>)) = Complement(items, ret.out)
        /\ call.input.op = "Not" =>
               /\ ret.out = Complement(items, Apply(items, call.input.subs[1]))
               /\ Range(ret.out) \cap Range(Apply(items, call.input.subs[1])) = {}
               /\ Range(ret.out) \cup Range(Apply(items, call.input.subs[1])) = Range(items)

\* Not(P) applied to three distinct items keeps some and drops some.
C17_Witness ==
    /\ call.api = "filter.Apply"
    /\ call.input.op = "Not"
    /\ Len(items) = 3
    /\ Cardinality(Range(items)) = 3
    /\ Len(ret.out) \in {1, 2}

IntegerKinds == SignedKinds \cup UnsignedKinds

\* The comparison op names, on two integers.
MathCompare(op, a, b) ==
    CASE op = "Eq"  -> a = b
      [] op = "Ne"  -> a # b
      [] op = "Gt"  -> a > b
      [] op = "Lt"  -> a < b
      [] op = "Gte" -> a >= b
      [] op = "Lte" -> a <= b

\* C18: Eq, Ne, Lt, Gt, Gte and Lte on an integer field with an integer
\* operand of another integer type compare the two mathematical values, also
\* when the operand lies outside the range of the field's type.
C18_ValueComparison ==
    (call.api = "filter.Apply" /\ call.input.op \in CompareOps
     /\ call.input.arg.k \in IntegerKinds) =>
        \A i \in DOMAIN items :
            LET fv == getFieldValue(items[i], call.input.path)
            IN  (~fv.err /\ fv.val.k \in IntegerKinds /\ fv.val.k # call.input.arg.k) =>
                    (items[i] \in Range(ret.out)
                        <=> MathCompare(call.input.op, fv.val.pv, call.input.arg.pv))

\* false as 0 and true as 1.
BoolNumber(b) == IF b THEN 1 ELSE 0

\* C19: Lt, Gt, Lte, Gte and Between on a boolean field with boolean operands
\* give the results of comparing 0 and 1.
C19_BooleanOrdering ==
    (call.api = "filter.Apply" /\ call.input.op \in {"Lt", "Gt", "Lte", "Gte", "Between"}
     /\ call.input.arg.k = "bool") =>
        \A i \in DOMAIN items :
            LET f  == call.input
                fv == getFieldValue(items[i], f.path)
            IN  (~fv.err /\ fv.val.k = "bool") =>
                    (items[i] \in Range(ret.out)
                        <=> IF f.op = "Between"
                            THEN /\ BoolNumber(f.arg.pv) <= BoolNumber(fv.val.pv)
                                 /\ BoolNumber(fv.val.pv) <= BoolNumber(f.arg2.pv)
                            ELSE MathCompare(f.op, BoolNumber(fv.val.pv), BoolNumber(f.arg.pv)))

\* The member of the struct behind item that path names, as the struct holds
\* it: a pointer member is not followed.
MemberOf(item, path) ==
    LET value == IF item.k = "ptr" THEN item.pv[1] ELSE item
    IN  value.pv[path]

HasMember(item, path) ==
    /\ item # NilPtr
    /\ (IF item.k = "ptr" THEN item.pv[1] ELSE item).k = "struct"
    /\ path \in DOMAIN (IF item.k = "ptr" THEN item.pv[1] ELSE item).pv

\* C20: IsNil(f) keeps a record exactly when its member f is of a nullable
\* kind and nil, a nil pointer member included, and IsNotNil(f) exactly when
\* it is not.
C20_NilDetection ==
    (call.api = "filter.Apply" /\ call.input.op \in {"IsNil", "IsNotNil"}) =>
        \A i \in DOMAIN items :
            HasMember(items[i], call.input.path) =>
                LET member == MemberOf(items[i], call.input.path)
                    isNil  == member.k \in NilableKinds /\ IsNilValue(member)
                IN  items[i] \in Range(ret.out)
                        <=> IF call.input.op = "IsNil" THEN isNil ELSE ~isNil

\* The key is given with a value: parseParams skips a key without one.
Given(params, key) == key \in DOMAIN params /\ params[key] # <<>>

\* The number of comma-separated parts of a text.
PartCount(raw) == Cardinality({i \in DOMAIN raw : raw[i] = ","}) + 1

\* s ends with e.
EndsWith(s, e) == Len(s) >= Len(e) /\ SubSeq(s, Len(s) - Len(e) + 1, Len(s)) = e

sBetweenEnding == <<"_", "b", "e", "t", "w", "e", "e", "n">>

\* The kind of the field registered under an external key.
KindOfKey(key) == parseStructTags(UserType).byColumn[key].fieldType

\* C11: a <key>_between value with one part or with three or more parts fails
\* with ErrInvalidValue, for every field kind; a value with exactly two parts
\* is coerced part by part to the field's kind.
C11_BetweenParts ==
    (call.api = "query.Apply" /\ Cardinality(DOMAIN call.input.params) = 1
     /\ \E key \in DOMAIN call.input.params :
            EndsWith(key, sBetweenEnding) /\ Given(call.input.params, key)) =>
        LET key   == CHOOSE key \in DOMAIN call.input.params : TRUE
            raw   == call.input.params[key][1]
            comma == CHOOSE i \in DOMAIN raw : raw[i] = ","
            kind  == KindOfKey(SubSeq(key, 1, Len(key) - Len(sBetweenEnding)))
            min   == coerceValue(TrimSpace(SubSeq(raw, 1, comma - 1)), kind)
            max   == coerceValue(TrimSpace(SubSeq(raw, comma + 1, Len(raw))), kind)
        IN  IF PartCount(raw) # 2 \/ min.err \/ max.err
            THEN ret.res = "nil" /\ ret.err.etype = "ErrInvalidValue" /\ ret.err.Value = raw
            ELSE /\ ret.res = "slice"
                 /\ Parsed.q.filters[1].operand = <<min.val, max.val>>

\* The positions in operators of the suffixes the key ends with.
EndingsOf(key) == {i \in DOMAIN operators : EndsWith(key, sUnderscore \o operators[i])}

\* C12: splitParamOperator(key) returns the prefix and the operator of the
\* first suffix, in the order of operators, that key ends with, and (key, eq)
\* when it ends with none; <k>_gte yields gte and <k>_lte yields lte; and
\* prefix + "_" + op = key whenever op is not eq.
C12_OperatorSuffix ==
    call.api = "query.splitParamOperator" =>
        LET key    == call.input.param
            column == ret.out[1]
            op     == ret.out[2]
        IN  /\ EndingsOf(key) = {} => (column = key /\ op = sEq)
            /\ EndingsOf(key) # {} =>
                   op = operators[CHOOSE i \in EndingsOf(key) : \A j \in EndingsOf(key) : i <= j]
            /\ EndsWith(key, <<"_", "g", "t", "e">>) => op = <<"g", "t", "e">>
            /\ EndsWith(key, <<"_", "l", "t", "e">>) => op = <<"l", "t", "e">>
            /\ op # sEq => column \o sUnderscore \o op = key

\* The key a_gte_gt, whose prefix itself ends with an operator suffix.
C12_Witness ==
    /\ call.api = "query.splitParamOperator"
    /\ call.input.param = <<"a", "_", "g", "t", "e", "_", "g", "t">>
    /\ ret.out = <<<<"a", "_", "g", "t", "e">>, <<"g", "t">>>>

\* The text is a decimal integer from 1 up: digits, after a plus sign or none,
\* that are not all zero.
FromOneUp(raw) ==
    LET digits == IF raw # <<>> /\ raw[1] = "+" THEN Tail(raw) ELSE raw
    IN  /\ digits # <<>>
        /\ AllDigits(digits)
        /\ \E i \in DOMAIN digits : digits[i] # "0"

\* The number a text that is an integer from 1 up denotes.
NumberOf(raw) == DigitsValue(IF raw[1] = "+" THEN Tail(raw) ELSE raw)

\* The errors the page and limit keys of params call for under the options o.
PagingErrors(params, o) ==
    {ErrInvalidValue(key, params[key][1], "positive integer") :
        key \in {k \in {sPage, sLimit} : Given(params, k) /\ ~FromOneUp(params[k][1])}}
    \cup {ErrLimitExceeded(WNat(NumberOf(params[key][1])), o.maxLimit) :
        key \in {k \in {sLimit} : /\ Given(params, k)
                                  /\ FromOneUp(params[k][1])
                                  /\ WLess(WZero, o.maxLimit)
                                  /\ NumberOf(params[k][1]) > WValue(o.maxLimit)}}

\* The keys of params other than page and limit compile without an error.
OthersCompile(params, o) ==
    LET rest == [key \in DOMAIN params \ {sPage, sLimit} |-> params[key]]
    IN  \A order \in Orders(rest) : parseParams(UserType, rest, order, o).err = NoError

\* C13: a page or limit value that is no integer from 1 up fails with
\* ErrInvalidValue, a limit above a configured maximum M > 0 fails with
\* ErrLimitExceeded carrying the limit and M, and every limit from 1 to M is
\* accepted; in query.Apply as in query.ApplyPaginated, and a failing
\* compilation returns no records. The other keys of the query are valid.
C13_PagingValidation ==
    (call.api \in {"query.Apply", "query.ApplyPaginated"}
     /\ OthersCompile(call.input.params, call.input.opts)) =>
        IF PagingErrors(call.input.params, call.input.opts) # {}
        THEN /\ ret.res = "nil"
             /\ ret.out = <<>>
             /\ ret.err \in PagingErrors(call.input.params, call.input.opts)
        ELSE ret.res # "nil" /\ ret.err = NoError

\* query.Apply on a non-empty slice with limit=3 under a maximum of 2.
C13_Witness ==
    /\ call.api = "query.Apply"
    /\ Len(items) > 0
    /\ ret.res = "nil"
    /\ ret.out = <<>>
    /\ ret.err = ErrLimitExceeded(WNat(3), WNat(2))

\* What query.Apply returns for one key of the invocation in call taken alone.
Alone(key) ==
    QueryApply(UserType, items, key :> call.input.params[key], <<key>>, call.input.opts).out

\* C14: for a query of several filter keys, query.Apply returns the records
\* that every one of the keys returns when taken alone, in input order,
\* whatever the order the keys are processed in; and for two compiled filters
\* P and Q, apply(C, And(P, Q)) = apply(apply(C, P), Q).
C14_KeysConjoined ==
    (call.api = "query.Apply" /\ DOMAIN call.input.params \cap reservedParams = {}
     /\ Cardinality(DOMAIN call.input.params) >= 2) =>
        LET InAll(item) == \A key \in DOMAIN call.input.params : item \in Range(Alone(key))
        IN  /\ ret.out = SelectSeq(items, InAll)
            /\ (Parsed.err = NoError /\ Len(Parsed.q.filters) = 2) =>
                   LET P == buildFilter(Parsed.q.filters[1])
                       Q == buildFilter(Parsed.q.filters[2])
                   IN  /\ ret.out = Apply(Apply(items, P), Q)
                       /\ Apply(items, Combine("And", <<P, Q>>)) = Apply(Apply(items, P), Q)

\* Two filter keys over three records: each key alone returns two of them,
\* the query returns the one they share.
C14_Witness ==
    /\ call.api = "query.Apply"
    /\ DOMAIN call.input.params \cap reservedParams = {}
    /\ Cardinality(DOMAIN call.input.params) = 2
    /\ Len(items) = 3
    /\ Len(ret.out) = 1
    /\ \A key \in DOMAIN call.input.params : Len(Alone(key)) = 2

\* The non-reserved keys of params that are given with a value.
CompiledKeys(params) == {key \in DOMAIN params \ reservedParams : Given(params, key)}

\* The sort key's field name without the direction sign.
SortKey(raw) == IF raw # <<>> /\ raw[1] = "-" THEN Tail(raw) ELSE raw

\* C15: the compiled filter list has one filter for every non-reserved key
\* given with a value and none for sort, page and limit, whose values set the
\* sort field and direction, the page number and the page size only.
C15_ReservedKeys ==
    (call.api \in {"query.Apply", "query.ApplyPaginated"} /\ Parsed.err = NoError) =>
        LET params == call.input.params
            q      == Parsed.q
        IN  /\ Len(q.filters) = Cardinality(CompiledKeys(params))
            /\ \A key \in CompiledKeys(params) :
                   \E i \in DOMAIN q.filters :
                       /\ q.filters[i].operator = splitParamOperator(key).operator
                       /\ q.filters[i].field = FieldOfKey(splitParamOperator(key).column)
            /\ IF Given(params, sSort)
               THEN /\ q.sortField = FieldOfKey(SortKey(params[sSort][1]))
                    /\ q.sortAsc = (params[sSort][1][1] # "-")
               ELSE q.sortField = <<>>
            /\ q.page = IF Given(params, sPage) THEN WNat(NumberOf(params[sPage][1]))
                        ELSE WNat(1)
            /\ q.limit = IF Given(params, sLimit) THEN WNat(NumberOf(params[sLimit][1]))
                         ELSE call.input.opts.defaultLimit
            /\ ret.res = "page" => (ret.Page = q.page /\ ret.Limit = q.limit)

\* The second page, of one record, of the two records of three that a filter
\* key selects.
C15_Witness ==
    /\ call.api = "query.ApplyPaginated"
    /\ DOMAIN call.input.params = {<<"a", "g", "e", "_", "b", "e", "t", "w", "e", "e", "n">>, sPage, sLimit}
    /\ ret.res = "page"
    /\ ret.Page = WNat(2)
    /\ ret.Limit = WNat(1)
    /\ Len(items) = 3
    /\ ret.Total = 2
    /\ Len(ret.out) = 1

\* C16: no call of filter.Apply, filter.Sort, filter.SortByDistance,
\* query.Apply or query.ApplyPaginated, successful or failing, changes what
\* the caller's slice holds: its length, its records and their order.
C16_InputUnchanged == [][items' = items]_vars

\* filter.Sort returned three records in another order than the input's.
C16_Witness ==
    /\ call.api = "filter.Sort"
    /\ Len(items) = 3
    /\ Len(ret.out) = 3
    /\ ret.out # items

\* The natural zero of a member's kind: the empty string, 0, false, a
\* sequence or mapping without elements (nil or allocated) and a nil pointer.
NaturalZero(member) ==
    CASE member.k = "string" -> member.pv = <<>>
      [] member.k \in NumericKinds -> member.pv = 0
      [] member.k = "bool" -> member.pv = FALSE
      [] member.k = "slice" -> member.pv = <<>>
      [] member.k = "map" -> DOMAIN member.pv = {}
      [] member.k = "ptr" -> member.pv = <<>>
      [] OTHER -> FALSE

\* The paths of one name.
OneName(path) == \A i \in DOMAIN path : path[i] # "."

\* C21: IsZero(f) keeps a record exactly when its member f holds the natural
\* zero of its kind (an allocated empty mapping and a nil pointer included),
\* and IsNotZero(f) exactly when f resolves and holds a non-zero value.
C21_ZeroDetection ==
    (/\ call.api = "filter.Apply"
     /\ call.input.op \in {"IsZero", "IsNotZero"}
     /\ OneName(call.input.path)) =>
        \A i \in DOMAIN items :
            LET has  == HasMember(items[i], call.input.path)
                zero == has /\ NaturalZero(MemberOf(items[i], call.input.path))
            IN  items[i] \in Range(ret.out)
                    <=> IF call.input.op = "IsZero" THEN zero ELSE has /\ ~zero

\* C22: on a timestamp field, DateBetween(f, start, end) keeps a record
\* exactly when start <= t <= end at the timestamp's full resolution, and
\* DateBefore(f, d) and DateAfter(f, d) exactly when t < d and t > d.
C22_DateRange ==
    (/\ call.api = "filter.Apply"
     /\ call.input.op \in {"DateBefore", "DateAfter", "DateBetween"}
     /\ call.input.path = sAt) =>
        \A i \in DOMAIN items :
            LET t == MemberOf(items[i], sAt)
                f == call.input
            IN  items[i] \in Range(ret.out)
                    <=> CASE f.op = "DateBefore" -> TimeBefore(t, f.arg)
                          [] f.op = "DateAfter" -> TimeAfter(t, f.arg)
                          [] f.op = "DateBetween" ->
                                ~TimeBefore(t, f.arg) /\ ~TimeAfter(t, f.arg2)

\* The resolution of the names of a path from the i-th on, as C23 states it:
\* it fails on a missing member, on a nil pointer and on a step before the
\* last that yields no struct; pointers before the last name are followed,
\* and the last named member is returned as the struct holds it.
RECURSIVE NamedMember(_, _, _)
NamedMember(value, names, i) ==
    IF names[i] \notin DOMAIN value.pv THEN FieldError
    ELSE LET member == value.pv[names[i]]
         IN  IF member = NilPtr THEN FieldError
             ELSE IF i = Len(names) THEN [err |-> FALSE, val |-> member]
             ELSE LET target == IF member.k = "ptr" THEN member.pv[1] ELSE member
                  IN  IF target.k # "struct" THEN FieldError
                      ELSE NamedMember(target, names, i + 1)

ResolvedMember(item, path) ==
    IF item = NilPtr THEN FieldError
    ELSE LET value == IF item.k = "ptr" THEN item.pv[1] ELSE item
         IN  IF value.k # "struct" THEN FieldError
             ELSE NamedMember(value, Split(path, sDot), 1)

\* C23: the resolution of a dotted path fails exactly on a non-struct step
\* before the last, a nil pointer on the path, a missing member, and a record
\* that is a nil pointer or no struct; otherwise it returns the last named
\* member, reached through the non-nil pointers before it.
C23_FieldResolution ==
    call.api = "filter.Apply" =>
        \A i \in DOMAIN items : \A path \in LeafPaths(call.input) :
            getFieldValue(items[i], path) = ResolvedMember(items[i], path)

\* What parseParams yields when the range over the map visits the keys in
\* the given order.
ParsedIn(order) ==
    parseParams(UserType, call.input.params, order, call.input.opts)

\* C24: for a fixed parameter map and fixed options, parseParams yields the
\* same outcome in whatever order the keys are visited: the same error when it
\* fails, and the same set of filters, sort field and direction, page and
\* limit when it succeeds.
C24_OrderIndependent ==
    call.api \in {"query.Apply", "query.ApplyPaginated"} =>
        \A order \in Orders(call.input.params) :
            /\ ParsedIn(order).err = Parsed.err
            /\ Parsed.err = NoError =>
                  /\ Range(ParsedIn(order).q.filters) = Range(Parsed.q.filters)
                  /\ ParsedIn(order).q.sortField = Parsed.q.sortField
                  /\ ParsedIn(order).q.sortAsc = Parsed.q.sortAsc
                  /\ ParsedIn(order).q.page = Parsed.q.page
                  /\ ParsedIn(order).q.limit = Parsed.q.limit

\* What the invocation returns when it runs alone on the slice.
RunAlone(inv, shared) ==
    CASE inv.api = "filter.Apply" -> Result("slice", Apply(shared, inv.f), NoError)
      [] inv.api = "query.Apply" ->
            QueryApply(UserType, shared, inv.params, inv.order, inv.opts)
      [] inv.api = "query.ApplyPaginated" ->
            ApplyPaginated(UserType, shared, inv.params, inv.order, inv.opts)

\* C25: while invocations of filter.Apply, query.Apply and
\* query.ApplyPaginated run at the same time on one slice and one parameter
\* map, the slice holds what it held when the first call was made, and every
\* invocation that has returned has returned what it returns when run alone.
C25_NoInterference ==
    call.api = "concurrent" =>
        /\ items = call.input.shared
        /\ \A p \in DOMAIN call.input.invs :
              call.input.invs[p].pc = "done" =>
                  ret[p] = RunAlone(call.input.invs[p], call.input.shared)

\* A sort of three records was called after a paginated query on the same
\* slice and has returned them in another order, while the paginated query
\* has filtered and not yet sorted.
C25_Witness ==
    /\ call.api = "concurrent"
    /\ Len(call.input.invs) = 2
    /\ Len(items) = 3
    /\ call.input.invs[1].api = "query.ApplyPaginated"
    /\ call.input.invs[1].pc = "sort"
    /\ call.input.invs[2].api = "query.Apply"
    /\ call.input.invs[2].pc = "done"
    /\ Len(ret[2].out) = 3
    /\ ret[2].out # items

\* C26: whenever the parameters compile, with any page >= 1, any limit >= 1
\* and any configured default page size, ApplyPaginated takes its page with
\* indices 0 <= start <= end <= N: the slice expression does not panic.
C26_SliceInRange ==
    (call.api = "query.ApplyPaginated" /\ Parsed.err = NoError) => ret.res # "panic"

\* C27: under a maximum page size M > 0, every page that ApplyPaginated
\* returns has Limit <= M and at most M items, whether the page size comes
\* from the limit key or from the default page size.
C27_MaxLimitBounds ==
    (/\ call.api = "query.ApplyPaginated"
     /\ ret.res = "page"
     /\ WLess(WZero, call.input.opts.maxLimit)) =>
        /\ ~WLess(call.input.opts.maxLimit, ret.Limit)
        /\ Len(ret.out) <= WValue(call.input.opts.maxLimit)

\* The struct fields that the registry of User marks sortable.
SortableNames ==
    {parseStructTags(UserType).fields[i].structField :
        i \in {i \in DOMAIN parseStructTags(UserType).fields :
                  parseStructTags(UserType).fields[i].sortable}}

\* The field a call sorts by: the sort key's, else the default sort's.
SortedBy ==
    IF Parsed.q.sortField # <<>> THEN Parsed.q.sortField
    ELSE call.input.opts.defaultSort

\* C29: a call of query.Apply or query.ApplyPaginated that returns a result
\* has sorted it, if at all, by a field that the registry marks sortable,
\* the default sort of WithDefaultSort included.
C29_SortableOnly ==
    (/\ call.api \in {"query.Apply", "query.ApplyPaginated"}
     /\ ret.res \in {"slice", "page"}) =>
        (SortedBy = <<>> \/ SortedBy \in SortableNames)

\* What parseParams yields for a call on bookings.
ParsedBooking ==
    parseParams(BookingType, call.input.params, call.input.order, call.input.opts)

\* The fieldInfos of the fields of Booking that are tagged filterable.
ExposedFields ==
    {TagInfo(BookingType[i]) :
        i \in {i \in DOMAIN BookingType :
                  BookingType[i].tag # <<>> /\ TagInfo(BookingType[i]).filterable}}

\* C28: for every filterable field, the query of its own key alone, with a
\* value of the field's kind, compiles to one equality filter on that field;
\* the key is neither split at an operator ending nor taken as a reserved
\* key, and no other field answers to it.
C28_OwnKey ==
    call.api = "query.Apply" =>
        \A info \in ExposedFields :
            (/\ DOMAIN call.input.params = {info.column}
             /\ ~coerceValue(call.input.params[info.column][1], info.fieldType).err) =>
                /\ splitParamOperator(info.column) = [column |-> info.column, operator |-> sEq]
                /\ ParsedBooking.err = NoError
                /\ Len(ParsedBooking.q.filters) = 1
                /\ ParsedBooking.q.filters[1].operator = sEq
                /\ ParsedBooking.q.filters[1].field = info.structField

\* The operator ending of the only key of a call, given that its column is at.
AtOperator == splitParamOperator(CHOOSE key \in DOMAIN call.input.params : TRUE).operator

\* The order of timestamps that a query operator selects by.
TimeSelects(op, t, operand) ==
    CASE op = sEq -> t = operand
      [] op = <<"g", "t">> -> TimeAfter(t, operand)
      [] op = <<"g", "t", "e">> -> ~TimeBefore(t, operand)
      [] op = <<"l", "t">> -> TimeBefore(t, operand)
      [] op = <<"l", "t", "e">> -> ~TimeAfter(t, operand)
      [] op = <<"b", "e", "t", "w", "e", "e", "n">> -> ~TimeBefore(t, operand[1]) /\ ~TimeAfter(t, operand[2])

\* C30: on the filterable and sortable time.Time field At, a query at=<v>
\* selects exactly the records whose timestamp is the coerced v, the keys
\* at_gt, at_gte, at_lt, at_lte and at_between select by the order of time,
\* and sort=at and sort=-at return the records in chronological order and
\* its reverse.
C30_TimeComparable ==
    (/\ call.api = "query.Apply"
     /\ ParsedBooking.err = NoError
     /\ Cardinality(DOMAIN call.input.params) = 1) =>
        /\ (/\ Len(ParsedBooking.q.filters) = 1
            /\ ParsedBooking.q.filters[1].field = sAt
            /\ AtOperator \in {sEq, <<"g", "t">>, <<"g", "t", "e">>, <<"l", "t">>, <<"l", "t", "e">>, <<"b", "e", "t", "w", "e", "e", "n">>}) =>
               \A i \in DOMAIN items :
                   items[i] \in Range(ret.out)
                       <=> TimeSelects(AtOperator, MemberOf(items[i], sAt),
                                       ParsedBooking.q.filters[1].operand)
        /\ ParsedBooking.q.sortField = sAt =>
               \A j \in 1..(Len(ret.out) - 1) :
                   IF ParsedBooking.q.sortAsc
                   THEN ~TimeAfter(MemberOf(ret.out[j], sAt), MemberOf(ret.out[j + 1], sAt))
                   ELSE ~TimeBefore(MemberOf(ret.out[j], sAt), MemberOf(ret.out[j + 1], sAt))

=============================================================================
